---- MODULE Spec2Model ----
(***************************************************************************)
(* SuperWhisper Linux: the capture -> queue -> transcribe -> deliver       *)
(* pipeline.  Three threads of control are modelled:                       *)
(*   - the main thread, which runs the toggle (SIGUSR1) handler            *)
(*     SuperWhisper._on_hotkey and the tray's device-change callback;      *)
(*   - the audio driver's callback thread (AudioRecorder._audio_callback); *)
(*   - the single transcription worker (SuperWhisper._worker_loop).        *)
(* Init is the state reached when run() has pre-loaded the model, started  *)
(* the hotkey listener and built the tray: the worker thread is blocked in *)
(* queue.get() and the recorder is idle.                                   *)
(*                                                                         *)
(* The recorder's buffer is modelled by its length in samples; a captured  *)
(* chunk is one frame, named <<session, k>>.  A queued buffer is modelled  *)
(* by its identity (the number of the capture session that recorded it)    *)
(* and by what the worker reads of it: whether it is empty.                *)
(***************************************************************************)
EXTENDS Integers, Sequences, FiniteSets, TLC

\* Bounds of the model.
MaxSessions == 3
MaxChunks == 2
MaxEnumerated == 2
\* The toggle signals (SIGUSR1) the process receives.
MaxSignals == 3
\* The calls of the engine (load_model or transcribe) of one run.
MaxCalls == 3

\* AudioRecorder.TARGET_SAMPLE_RATE
TARGET_SAMPLE_RATE == 16000
\* queue.Queue() is constructed without maxsize: 0 means unbounded.
QueueMaxsize == 0
\* The input devices the tray offers (indices), and the native rate
\* sd.query_devices reports for each (dev_info["default_samplerate"]); the
\* system default (no device set) is recorded at the target rate.
Devices == {1}
default_samplerate(d) == 32000

VARIABLES
    \* AudioRecorder
    recording,            \* _recording
    audio_data,           \* _audio_data: sequence of chunks
    stream,               \* _stream: 0 (None) or the session that opened it
    stream_active,        \* the held stream was started and delivers callbacks
    leaked,               \* started streams no longer referenced by _stream
    device,               \* device: 0 (None, system default) or an index
    device_sample_rate,   \* _device_sample_rate
    \* the toggle handler (main thread)
    hpc,                  \* position in _on_hotkey / _stop_recording
    audio,                \* local of _stop_recording: what recorder.stop() gave,
                          \* NoAudio outside _stop_recording
    nsessions,            \* start-recordings so far
    pushed,               \* the buffers put on the queue so far
    \* SuperWhisper._audio_queue and the worker
    audio_queue,          \* FIFO of buffers [id, empty]
    wpc,                  \* position in _worker_loop
    waudio,               \* the worker's local "audio"
    text,                 \* the worker's local "text"
    \* collaborators
    tray_recording,       \* TrayIcon._recording
    tray_transcribing,    \* TrayIcon._transcribing
    tray_queue_size,      \* last value given to TrayIcon.set_queue_size
    clipboard,            \* buffers whose text was handed to wl-copy
    notifications,        \* <<buffer, kind>>: outcome notifications of the worker
    handler_errors,       \* <<session, kind>>: notify_error calls of the handler
    \* observation of the run
    engine_calls,         \* buffer -> number of times passed to the engine
    engine_busy,          \* engine calls in progress
    raised,               \* buffer -> what raised while its job was processed
    pushed_during,        \* <<b, j>>: j was pushed during the engine call of b
    zero_length,          \* sessions whose recorder.stop() gave no sample
    superseded,           \* buffers dequeued while a later one was queued
    ops,                  \* the operations the toggle events performed
    last_start,           \* how the last recorder.start() ended
    stop_idle,            \* the last recorder.stop() was called in Idle
    \* AudioRecorder._lock and the threads that take it
    lock,                 \* _lock: "none", or the thread that holds it
    cpc,                  \* position of the driver's thread in _audio_callback
    indata,               \* the chunk the callback in progress was called
                          \* with, <<0, 0>> when none is
    delivered,            \* the chunks the session's stream has delivered
    late,                 \* chunks whose callback ran once stop() had cleared
                          \* the running flag
    flat,                 \* the chunks the session's stop() concatenated
    stream_rate,          \* the samplerate the session's stream was opened
                          \* with, 0 before it is
    resample_rate,        \* the rate the session's stop() resampled from
    \* the recorder's public methods called one by one
    last_call,            \* the last call: its arguments and how it ended
    \* the device catalog
    query_devices,        \* what sd.query_devices() gives now
    inputs,               \* what the last list_audio_devices() returned
    listed,               \* it was called since the devices last changed
    \* the selection of the microphone
    microphone,           \* Config.microphone: the saved name, <<>> for None
    menu,                 \* the devices the tray's menu was built from
    mic_device,           \* the index last given to recorder.set_device by
                          \* the restore or the menu, -1 for None
    restored,             \* the devices that _restore_microphone saw, when
                          \* it is the last that set the device
    clicked,              \* the menu item last toggled
    \* wait_for_microphone and wait_for_audio_service; times are in units of
    \* the polling interval (0.5 s), -1 stands for None
    now,                  \* time.time(), counted from the call
    query_failed,         \* a systemctl query of this call has failed
    wait_pc,              \* position in wait_for_microphone
    target_name,          \* argument; <<>> for None
    timeout,              \* argument
    stabilize_time,       \* argument
    cand,                 \* wait_for_audio_service: the candidate to query
    service_timeout,      \* wait_for_audio_service: its timeout
    service_start,        \* wait_for_audio_service: its start_time
    service_ready,        \* what wait_for_audio_service returned, as a string
    start_time,           \* wait_for_microphone: start_time
    last_device_count,    \* wait_for_microphone: last_device_count
    stable_since,         \* wait_for_microphone: stable_since
    wait_devices,         \* wait_for_microphone: devices
    \* observation of the wait
    target_seen_at,       \* when a listing first held the target
    run_count,            \* the count of the last listing of the loop
    run_since,            \* the first of the listings in a row of that count
    returned_at,          \* when wait_for_microphone returned
    active_seen_at,       \* when a candidate was first seen active
    service_returned_at,  \* when wait_for_audio_service returned
    \* listDevicesWithRetry; delays are in sixteenths of a second
    retry_pc,             \* position in listDevicesWithRetry
    max_attempts,         \* argument maxAttempts
    initial_delay,        \* argument initialDelay
    max_delay,            \* argument maxDelay
    attempt,              \* the calls of listDevices made so far
    delay,                \* the delay of the next wait
    retry_devices,        \* what the last call of listDevices gave
    waits,                \* the delays waited so far, in order
    found_at,             \* the first attempt that found a device, 0 if none
    \* main(): the startup of the application
    startup_pc,           \* position in main()
    on_path,              \* the commands shutil.which finds
    gi_error,             \* what the import of Gtk and AppIndicator3 raises
    notify_ok,            \* the import of Notify succeeds
    missing,              \* main's local: what check_all() returned
    printed,              \* the dependencies print_missing has printed
    exit_status,          \* the status of sys.exit, -1 while running
    created,              \* the parts of the application created, in order
    \* resample() and the end of stop(), applied to a buffer
    resample_pc,          \* "idle", or the function that was applied
    samples_in,           \* resample: the argument audio, its samples
    from_rate,            \* resample: the argument orig_sr
    to_rate,              \* resample: the argument target_sr
    resampled,            \* resample: what it returned, or that it raised
    captured,             \* stop: the samples the session captured
    native_rate,          \* stop: _device_sample_rate
    finalized,            \* stop: the buffer it returned
    \* Transcriber: load_model and the calls that reach it
    load_pc,              \* position in load_model, "ready" between calls
    caller,               \* who called load_model: run() or transcribe()
    requested_device,     \* Transcriber._requested_device
    requested_compute_type,  \* Transcriber._requested_compute_type
    cuda_available,       \* what check_cuda_available() returns
    engine_model,         \* Transcriber._model
    actual_device,        \* Transcriber._actual_device
    load_device,          \* load_model's local device
    compute_type,         \* load_model's local compute_type
    constructed,          \* the WhisperModel(...) calls made so far, in order
    load_calls,           \* the calls of load_model made so far
    load_raised,          \* what the last call of load_model raised
    \* history of the queue and of the worker's check after transcription
    pushes,               \* the buffers put on the queue, in the order of the puts
    at_check,             \* per buffer: what the worker's check found
    deliveries,           \* the buffers whose text went to wl-copy, in order
    \* the toggle signal handled on the main thread
    frames,               \* the calls of _handle_signal in progress, innermost last
    signals,              \* the signals handled so far
    \* NotificationManager: the processing notification and the GLib main loop
    processing_notification,  \* _processing_notification: 0 for None
    processing_timer_id,      \* _processing_timer_id: 0 for None
    processing_start_time,    \* _processing_start_time is not None
    idle_queue,           \* the callbacks given to GLib.idle_add, not yet run
    open_notices,         \* the processing notifications shown and not closed
    timers,               \* the timeout sources of the main loop
    notices_made          \* the notifications _create has made so far

\* A buffer the worker's check has not seen.
NotChecked == [newest |-> 0, waiting |-> 0]

\* Transcriber._model is None
NoModel == [device |-> "none", compute_type |-> "none"]

\* np.array([], dtype=np.float32), returned without raising
NoAudio == [raised |-> FALSE, len |-> 0]

recorder_vars == <<recording, audio_data, stream, stream_active, leaked,
                   device, device_sample_rate>>
handler_vars == <<hpc, audio, nsessions, pushed>>
worker_vars == <<wpc, waudio, text>>
tray_vars == <<tray_recording, tray_transcribing, tray_queue_size>>
outcome_vars == <<clipboard, notifications, handler_errors>>
history_vars == <<engine_calls, engine_busy, raised, pushed_during, zero_length,
                  superseded, ops, last_start, stop_idle>>
session_vars == <<lock, cpc, indata, delivered, late, flat, stream_rate,
                  resample_rate>>
\* What the pipeline seen at the grain of whole recorder calls leaves alone.
call_vars == <<last_call>>
\* What the pipeline at the grain of the lock leaves alone.
catalog_vars == <<query_devices, inputs, listed>>
select_vars == <<microphone, menu, mic_device, restored, clicked>>
wait_args == <<target_name, timeout, stabilize_time>>
service_locals == <<cand, service_timeout, service_start, service_ready>>
mic_locals == <<start_time, last_device_count, stable_since, wait_devices>>
wait_history == <<target_seen_at, run_count, run_since, returned_at,
                  active_seen_at, service_returned_at>>
wait_vars == <<now, query_failed, wait_pc, wait_args, service_locals, mic_locals,
               wait_history>>
\* listDevicesWithRetry
retry_args == <<max_attempts, initial_delay, max_delay>>
retry_vars == <<retry_pc, retry_args, attempt, delay, retry_devices, waits,
                found_at>>
\* The variables of the parts added last.
startup_vars == <<startup_pc, on_path, gi_error, notify_ok, missing, printed,
                  exit_status, created>>
\* resample() and the end of stop() applied to buffers
resample_vars == <<resample_pc, samples_in, from_rate, to_rate, resampled,
                   captured, native_rate, finalized>>
\* Transcriber.load_model and its callers
engine_vars == <<load_pc, caller, requested_device, requested_compute_type,
                 cuda_available, engine_model, actual_device, load_device,
                 compute_type, constructed, load_calls, load_raised>>
\* the order of the puts, of the checks and of the deliveries
order_vars == <<pushes, at_check, deliveries>>
\* HotkeyListener._handle_signal on the main thread
signal_vars == <<frames, signals>>
\* the processing notification and the main loop's sources
notice_vars == <<processing_notification, processing_timer_id,
                 processing_start_time, idle_queue, open_notices, timers,
                 notices_made>>
more_vars == <<retry_vars, startup_vars, resample_vars, engine_vars, order_vars,
               signal_vars, notice_vars>>
apart_vars == <<call_vars, catalog_vars, select_vars, wait_vars, more_vars>>
other_vars == <<session_vars, apart_vars>>
\* What the device catalog leaves alone.
pipeline_vars == <<recorder_vars, handler_vars, audio_queue, worker_vars,
                   tray_vars, outcome_vars, history_vars, session_vars,
                   call_vars>>
vars == <<recorder_vars, handler_vars, audio_queue, worker_vars, tray_vars,
          outcome_vars, history_vars, other_vars>>

\* What each of these parts leaves alone.
base_vars == <<pipeline_vars, catalog_vars, select_vars, wait_vars>>
beside_retry ==
    <<base_vars, startup_vars, resample_vars, engine_vars, order_vars,
      signal_vars, notice_vars>>
beside_startup ==
    <<base_vars, retry_vars, resample_vars, engine_vars, order_vars,
      signal_vars, notice_vars>>
beside_resample ==
    <<base_vars, retry_vars, startup_vars, engine_vars, order_vars,
      signal_vars, notice_vars>>
beside_engine ==
    <<base_vars, retry_vars, startup_vars, resample_vars, order_vars,
      signal_vars, notice_vars>>
beside_order == <<session_vars, call_vars, catalog_vars, select_vars, wait_vars,
                  retry_vars, startup_vars, resample_vars, engine_vars,
                  signal_vars, notice_vars>>
beside_signal == <<call_vars, catalog_vars, select_vars, wait_vars, retry_vars,
                   startup_vars, resample_vars, engine_vars, notice_vars>>
beside_notice == <<session_vars, call_vars, catalog_vars, select_vars, wait_vars,
                   retry_vars, startup_vars, resample_vars, engine_vars,
                   signal_vars>>

Buffers == 1..MaxSessions

Init ==
    /\ recording = FALSE
    /\ audio_data = <<>>
    /\ stream = 0
    /\ stream_active = FALSE
    /\ leaked = 0
    /\ device = 0
    /\ device_sample_rate = TARGET_SAMPLE_RATE
    /\ hpc = "idle"
    /\ audio = NoAudio
    /\ nsessions = 0
    /\ pushed = {}
    /\ audio_queue = <<>>
    /\ wpc = "get"
    /\ waudio = [id |-> 0, empty |-> TRUE]
    /\ text = ""
    /\ tray_recording = FALSE
    /\ tray_transcribing = FALSE
    /\ tray_queue_size = 0
    /\ clipboard = {}
    /\ notifications = {}
    /\ handler_errors = {}
    /\ engine_calls = [b \in Buffers |-> 0]
    /\ engine_busy = 0
    /\ raised = [b \in Buffers |-> "none"]
    /\ pushed_during = {}
    /\ zero_length = {}
    /\ superseded = {}
    /\ ops = <<>>
    /\ last_start = "none"
    /\ stop_idle = FALSE
    /\ lock = "none"
    /\ cpc = "idle"
    /\ indata = <<0, 0>>
    /\ delivered = <<>>
    /\ late = {}
    /\ flat = <<>>
    /\ stream_rate = 0
    /\ resample_rate = 0
    /\ last_call = [op |-> "none", d |-> 0, query |-> "ok", open |-> "ok",
                    raised |-> FALSE]
    /\ query_devices = <<>>
    /\ inputs = <<>>
    /\ listed = FALSE
    /\ microphone = <<>>
    /\ menu = <<>>
    /\ mic_device = -1
    /\ restored = [valid |-> FALSE, raw |-> <<>>]
    /\ clicked = [valid |-> FALSE, index |-> -1, name |-> <<>>]
    /\ now = 0
    /\ query_failed = FALSE
    /\ wait_pc = "idle"
    /\ target_name = <<>>
    /\ timeout = 0
    /\ stabilize_time = 0
    /\ cand = 1
    /\ service_timeout = 0
    /\ service_start = 0
    /\ service_ready = "none"
    /\ start_time = -1
    /\ last_device_count = -1
    /\ stable_since = -1
    /\ wait_devices = <<>>
    /\ target_seen_at = -1
    /\ run_count = -1
    /\ run_since = -1
    /\ returned_at = -1
    /\ active_seen_at = -1
    /\ service_returned_at = -1
    /\ retry_pc = "idle"
    /\ max_attempts = 0
    /\ initial_delay = 0
    /\ max_delay = 0
    /\ attempt = 0
    /\ delay = 0
    /\ retry_devices = <<>>
    /\ waits = <<>>
    /\ found_at = 0
    /\ startup_pc = "off"
    /\ on_path = {}
    /\ gi_error = "none"
    /\ notify_ok = TRUE
    /\ missing = <<>>
    /\ printed = <<>>
    /\ exit_status = -1
    /\ created = <<>>
    /\ resample_pc = "idle"
    /\ samples_in = <<>>
    /\ from_rate = 0
    /\ to_rate = 0
    /\ resampled = [raised |-> FALSE, samples |-> <<>>]
    /\ captured = 0
    /\ native_rate = 0
    /\ finalized = NoAudio
    /\ load_pc = "off"
    /\ caller = "none"
    /\ requested_device = "auto"
    /\ requested_compute_type = "auto"
    /\ cuda_available = FALSE
    /\ engine_model = NoModel
    /\ actual_device = "cpu"
    /\ load_device = "none"
    /\ compute_type = "none"
    /\ constructed = <<>>
    /\ load_calls = 0
    /\ load_raised = "none"
    /\ pushes = <<>>
    /\ at_check = [b \in Buffers |-> NotChecked]
    /\ deliveries = <<>>
    /\ frames = <<>>
    /\ signals = 0
    /\ processing_notification = 0
    /\ processing_timer_id = 0
    /\ processing_start_time = FALSE
    /\ idle_queue = <<>>
    /\ open_notices = {}
    /\ timers = {}
    /\ notices_made = 0

(***************************************************************************)
(* AudioRecorder (audio.py)                                                *)
(***************************************************************************)

\* Double-precision arithmetic, as far as resample() uses it.  A positive
\* double is [m, e]: m its 53 significand bits, the first of them 1, read as
\* a whole number, and e the exponent of the last bit: the value is
\* m * 2^e.  Zero is [m |-> <<>>, e |-> 0].  Whole numbers are kept below
\* 2^31 by working on limbs of 14 bits.
Precision == 53
LimbBits == 14
Limb == 2^LimbBits

RECURSIVE to_bits(_)
\* The binary digits of a natural number, the leading one first.
to_bits(n) == IF n = 0 THEN <<>> ELSE Append(to_bits(n \div 2), n % 2)

RECURSIVE to_int(_)
\* The natural number of binary digits.
to_int(bits) ==
    IF bits = <<>> THEN 0
    ELSE 2 * to_int(SubSeq(bits, 1, Len(bits) - 1)) + bits[Len(bits)]

\* The binary digits of limbs, LimbBits for each.
limbs_to_bits(limbs) ==
    [i \in 1..(LimbBits * Len(limbs)) |->
        (limbs[((i - 1) \div LimbBits) + 1]
             \div 2^(LimbBits - 1 - ((i - 1) % LimbBits))) % 2]

\* The place of the first 1 among binary digits that hold one.
leading_one(bits) ==
    CHOOSE i \in 1..Len(bits) :
        bits[i] = 1 /\ \A j \in 1..(i - 1) : bits[j] = 0

\* The digits plus one, for digits that are not all 1.
increment(bits) ==
    LET z == CHOOSE i \in 1..Len(bits) :
                 bits[i] = 0 /\ \A j \in (i + 1)..Len(bits) : bits[j] = 1
    IN  [i \in 1..Len(bits) |->
            IF i < z THEN bits[i] ELSE IF i = z THEN 1 ELSE 0]

\* Round to nearest, ties to even.  bits holds a leading 1 and at least
\* Precision digits from it on, the last of all has exponent e_last, and
\* sticky says that something not zero lies beyond bits.
round_nearest_even(bits, e_last, sticky) ==
    LET lead == leading_one(bits)
        last == lead + Precision - 1
        m == SubSeq(bits, lead, last)
        e == e_last + (Len(bits) - last)
        guard == IF last < Len(bits) THEN bits[last + 1] ELSE 0
        beyond == sticky \/ \E k \in (last + 2)..Len(bits) : bits[k] = 1
        up == guard = 1 /\ (beyond \/ m[Precision] = 1)
    IN  IF ~up THEN [m |-> m, e |-> e]
        ELSE IF \A k \in 1..Precision : m[k] = 1
        THEN [m |-> [k \in 1..Precision |-> IF k = 1 THEN 1 ELSE 0],
              e |-> e + 1]
        ELSE [m |-> increment(m), e |-> e]

RECURSIVE long_division(_, _, _)
\* The next k limbs of rem / b after the point, for rem < b, and what
\* remains.
long_division(rem, b, k) ==
    IF k = 0 THEN [limbs |-> <<>>, rem |-> rem]
    ELSE LET x == rem * Limb
             rest == long_division(x % b, b, k - 1)
         IN  [limbs |-> <<x \div b>> \o rest.limbs, rem |-> rest.rem]

\* a / b in double precision, for whole numbers a >= 0 and 0 < b < 2^17
\* with a / b < 2^31: six limbs after the point hold the 53 digits and more.
float_divide(a, b) ==
    IF a = 0 THEN [m |-> <<>>, e |-> 0]
    ELSE LET d == long_division(a % b, b, 6)
         IN  round_nearest_even(to_bits(a \div b) \o limbs_to_bits(d.limbs),
                                0 - 6 * LimbBits, d.rem # 0)

\* x * c in double precision, for a double x >= 0 and a whole number c
\* with 0 < c < 2^16: the significand is multiplied limb by limb.
float_multiply(x, c) ==
    IF x.m = <<>> THEN x
    ELSE LET pm == <<0, 0, 0>> \o x.m
             limb(k) == to_int(SubSeq(pm, LimbBits * (k - 1) + 1, LimbBits * k))
             d4 == limb(4) * c
             d3 == limb(3) * c + d4 \div Limb
             d2 == limb(2) * c + d3 \div Limb
             d1 == limb(1) * c + d2 \div Limb
         IN  round_nearest_even(
                 to_bits(d1 \div Limb)
                     \o limbs_to_bits(<<d1 % Limb, d2 % Limb, d3 % Limb,
                                        d4 % Limb>>),
                 x.e, FALSE)

\* A truncation that rounds to the nearest whole number instead.
truncate_nearest(x) ==
    IF x.m = <<>> \/ Precision + x.e < 0 THEN 0
    ELSE to_int(SubSeq(x.m, 1, Precision + x.e))
         + (IF x.e < 0 THEN x.m[Precision + x.e + 1] ELSE 0)

\* int(x), for a double 0 <= x < 2^31: the digits before the point.
truncate(x) ==
    IF x.m = <<>> \/ Precision + x.e <= 0 THEN 0
    ELSE to_int(SubSeq(x.m, 1, Precision + x.e))

\* resample, lines 19-20: duration = len(audio) / orig_sr and target_length =
\* int(duration * target_sr), both in double precision.
target_length(n, orig_sr, target_sr) ==
    truncate(float_multiply(float_divide(n, orig_sr), target_sr))

\* resample(): the length of what it returns.
resample_length(n, orig_sr, target_sr) ==
    IF orig_sr = target_sr THEN n ELSE target_length(n, orig_sr, target_sr)

\* np.concatenate(chunks).flatten(): ValueError on an empty list, else the
\* frames of all chunks (a chunk is one frame).
concatenate(chunks) == [raised |-> chunks = <<>>, len |-> Len(chunks)]

\* AudioRecorder.set_device: the rate it leaves in _device_sample_rate.
\* query is "ok" or "fails" (sd.query_devices raised).
set_device_rate(d, query) ==
    IF d # 0 /\ query = "ok" THEN default_samplerate(d) ELSE TARGET_SAMPLE_RATE

\* A set_device whose handler catches nothing.
set_device_raises_uncaught(d, query) == d # 0 /\ query = "fails"

\* AudioRecorder.set_device: whether it raises.  The query and the int()
\* of its result are inside try ... except Exception, and nothing else of
\* the method can raise.
set_device_raises(d, query) == FALSE

\* AudioRecorder.start: whether it raises.  The exception of the query is
\* swallowed (lines 71-72); sd.InputStream and stream.start are not guarded.
start_raises(query, open) == open # "ok"

\* AudioRecorder.start, lines 67-72: the rate is queried again only when a
\* device is set and the rate is still the target rate.
start_rate(query) ==
    IF device # 0 /\ device_sample_rate = TARGET_SAMPLE_RATE /\ query = "ok"
    THEN default_samplerate(device)
    ELSE device_sample_rate

\* A start() that raises the running flag only once the stream has started.
RecorderStart_flag_after_open(s, query, open) ==
    /\ device_sample_rate' = start_rate(query)
    /\ audio_data' = <<>>
    /\ recording' = IF open = "ok" THEN TRUE ELSE recording
    /\ stream' = IF open = "open_failed" THEN stream ELSE s
    /\ stream_active' = IF open = "open_failed" THEN stream_active ELSE open = "ok"
    /\ leaked' = IF open # "open_failed" /\ stream # 0 /\ stream_active
                 THEN leaked + 1 ELSE leaked
    /\ stop_idle' = FALSE
    /\ UNCHANGED device

\* AudioRecorder.start.  s names the stream it opens; open is "ok",
\* "open_failed" (sd.InputStream raised) or "start_failed" (stream.start
\* raised, after _stream was assigned).  The session buffer and the running
\* flag are set under the lock before the stream is opened.
RecorderStart(s, query, open) ==
    /\ device_sample_rate' = start_rate(query)
    /\ audio_data' = <<>>
    /\ recording' = TRUE
    /\ stream' = IF open = "open_failed" THEN stream ELSE s
    /\ stream_active' = IF open = "open_failed" THEN stream_active ELSE open = "ok"
    /\ leaked' = IF open # "open_failed" /\ stream # 0 /\ stream_active
                 THEN leaked + 1 ELSE leaked
    /\ stop_idle' = FALSE
    /\ UNCHANGED device

\* resample_length for the sessions of the pipeline, which hold one frame
\* per chunk, at the rates the devices report: evaluated once.
session_length ==
    [n \in 1..(2 * MaxChunks), sr \in {default_samplerate(d) : d \in Devices} |->
        resample_length(n, sr, TARGET_SAMPLE_RATE)]

\* AudioRecorder.stop, lines 111-116: the flat buffer is resampled when the
\* device's rate is not the target rate; resample() raises on a buffer of
\* no sample (np.interp: "array of sample points is empty").
finalize(a, sr) ==
    IF sr # TARGET_SAMPLE_RATE
    THEN [raised |-> a.raised \/ a.len = 0,
          len |-> IF <<a.len, sr>> \in DOMAIN session_length
                  THEN session_length[a.len, sr]
                  ELSE resample_length(a.len, sr, TARGET_SAMPLE_RATE)]
    ELSE a

\* AudioRecorder.stop, lines 98-116: the value it returns.
stop_audio(chunks, sr) ==
    IF chunks = <<>> THEN NoAudio ELSE finalize(concatenate(chunks), sr)

\* A stop() that does not clear the session buffer.
stop_audio_data_kept(chunks) == chunks

\* AudioRecorder.stop, line 104: what it leaves in _audio_data.
stop_audio_data(chunks) == <<>>

\* AudioRecorder.stop: running flag off, stream stopped and closed, chunks
\* concatenated and resampled.
RecorderStop ==
    /\ stop_idle' = ~recording
    /\ recording' = FALSE
    /\ stream' = 0
    /\ stream_active' = FALSE
    /\ audio' = stop_audio(audio_data, device_sample_rate)
    /\ audio_data' = stop_audio_data(audio_data)
    /\ UNCHANGED <<leaked, device, device_sample_rate>>

\* AudioRecorder._audio_callback, for a chunk of a started stream.  A
\* callback that finds _recording false appends nothing and changes nothing.
AudioCallback ==
    /\ stream_active \/ leaked > 0
    /\ recording
    /\ Len(audio_data) < MaxChunks
    /\ audio_data' = Append(audio_data, <<nsessions, Len(audio_data) + 1>>)
    /\ UNCHANGED <<recording, stream, stream_active, leaked, device,
                   device_sample_rate, handler_vars, audio_queue, worker_vars,
                   tray_vars, outcome_vars, history_vars, other_vars>>

\* AudioRecorder.is_recording
is_recording == recording

(***************************************************************************)
(* SuperWhisper: the toggle handler and the tray's device change (main.py) *)
(***************************************************************************)

\* A queue of one slot: queue.Queue(maxsize=1).
QueueHasRoom_one_slot == Len(audio_queue) < 1

\* queue.Queue.put blocks only while a bounded queue is full.
QueueHasRoom == QueueMaxsize = 0 \/ Len(audio_queue) < QueueMaxsize

\* _on_hotkey with is_recording false: _start_recording.  An exception of
\* recorder.start() is handled nowhere in _start_recording, _on_hotkey or
\* HotkeyListener._handle_signal: the tray and notification calls after it
\* are skipped.
StartRecording(query, open) ==
    /\ hpc = "idle"
    /\ ~is_recording
    /\ nsessions < MaxSessions
    /\ nsessions' = nsessions + 1
    /\ RecorderStart(nsessions + 1, query, open)
    /\ tray_recording' = IF open = "ok" THEN TRUE ELSE tray_recording
    /\ ops' = Append(ops, "start")
    /\ last_start' = open
    /\ UNCHANGED <<hpc, audio, pushed, audio_queue, worker_vars,
                   tray_transcribing, tray_queue_size, outcome_vars,
                   engine_calls, engine_busy, raised, pushed_during,
                   zero_length, superseded, other_vars>>

\* _on_hotkey with is_recording true: _stop_recording, lines 191-194.
StopBegin ==
    /\ hpc = "idle"
    /\ is_recording
    /\ tray_recording' = FALSE
    /\ tray_transcribing' = TRUE
    /\ ops' = Append(ops, "stop")
    /\ hpc' = "stop"
    /\ UNCHANGED <<recorder_vars, audio, nsessions, pushed, audio_queue,
                   worker_vars, tray_queue_size, outcome_vars, engine_calls,
                   engine_busy, raised, pushed_during, zero_length, superseded,
                   last_start, stop_idle, other_vars>>

\* _stop_recording, line 196: audio = self.recorder.stop()
StopRecorder ==
    /\ hpc = "stop"
    /\ RecorderStop
    /\ zero_length' = IF audio'.len = 0 THEN zero_length \cup {nsessions}
                      ELSE zero_length
    /\ hpc' = "stopped"
    /\ UNCHANGED <<nsessions, pushed, audio_queue, worker_vars, tray_vars,
                   outcome_vars, engine_calls, engine_busy, raised,
                   pushed_during, superseded, ops, last_start, other_vars>>

\* _stop_recording, lines 198-203: nothing was recorded.
StopNoAudio ==
    /\ hpc = "stopped"
    /\ audio.len = 0
    /\ handler_errors' = handler_errors \cup {<<nsessions, "No audio recorded">>}
    /\ tray_transcribing' = FALSE
    /\ hpc' = "idle"
    /\ audio' = NoAudio
    /\ UNCHANGED <<recorder_vars, nsessions, pushed, audio_queue,
                   worker_vars, tray_recording, tray_queue_size, clipboard,
                   notifications, history_vars, other_vars>>

\* A _stop_recording without the return of line 203: it goes on to the put
\* whatever the length.
StopNotify_no_return ==
    /\ hpc = "stopped"
    /\ hpc' = "put"
    /\ UNCHANGED <<recorder_vars, audio, nsessions, pushed, audio_queue,
                   worker_vars, tray_vars, outcome_vars, history_vars, other_vars>>

\* _stop_recording, line 205: notify_recording_stopped, then on to the put.
StopNotify ==
    /\ hpc = "stopped"
    /\ audio.len # 0
    /\ hpc' = "put"
    /\ UNCHANGED <<recorder_vars, audio, nsessions, pushed, audio_queue,
                   worker_vars, tray_vars, outcome_vars, history_vars, other_vars>>

\* _stop_recording, lines 210-212: self._audio_queue.put(audio) and the
\* queue size shown by the tray.
QueuePut ==
    /\ hpc = "put"
    /\ QueueHasRoom
    /\ pushed' = pushed \cup {nsessions}
    /\ audio_queue' = Append(audio_queue,
                             [id |-> nsessions, empty |-> audio.len = 0])
    /\ tray_queue_size' = Len(audio_queue) + 1
    /\ pushed_during' = IF wpc = "engine"
                        THEN pushed_during \cup {<<waudio.id, nsessions>>}
                        ELSE pushed_during
    /\ pushes' = Append(pushes, nsessions)
    /\ hpc' = "idle"
    /\ audio' = NoAudio
    /\ UNCHANGED <<recorder_vars, nsessions, worker_vars, tray_recording,
                   tray_transcribing, outcome_vars, engine_calls, engine_busy,
                   raised, zero_length, superseded, ops, last_start, stop_idle,
                   at_check, deliveries, beside_order>>

\* _on_device_change: recorder.set_device(device_index); the saved name is
\* the configuration's, not the pipeline's.
OnDeviceChange(d, query) ==
    /\ hpc = "idle"
    /\ <<d, set_device_rate(d, query)>> # <<device, device_sample_rate>>
    /\ device' = d
    /\ device_sample_rate' = set_device_rate(d, query)
    /\ UNCHANGED <<recording, audio_data, stream, stream_active, leaked,
                   handler_vars, audio_queue, worker_vars, tray_vars,
                   outcome_vars, history_vars, other_vars>>

(***************************************************************************)
(* SuperWhisper._worker_loop and Transcriber.transcribe                    *)
(***************************************************************************)

\* The ids of the buffers of a queue.
Ids(q) == {q[i].id : i \in 1..Len(q)}

\* The queued buffers that have a later one queued behind them: all that
\* are queued, the most recently pushed excepted.
Outdated(q) == {q[i].id : i \in 1..(Len(q) - 1)}

\* _worker_loop, lines 220-226: the blocking get and the queue size shown.
WorkerGet ==
    /\ wpc = "get"
    /\ audio_queue # <<>>
    /\ waudio' = Head(audio_queue)
    /\ audio_queue' = Tail(audio_queue)
    /\ tray_queue_size' = Len(audio_queue) - 1
    /\ superseded' = superseded \cup Outdated(audio_queue)
    /\ wpc' = "drain"
    /\ UNCHANGED <<recorder_vars, handler_vars, text, tray_recording,
                   tray_transcribing, outcome_vars, engine_calls, engine_busy,
                   raised, pushed_during, zero_length, ops, last_start,
                   stop_idle, other_vars>>

\* A drain loop that takes the queued buffers off the queue and goes on with
\* the buffer the blocking get returned.
WorkerDrain_keeps_first ==
    /\ wpc = "drain"
    /\ audio_queue # <<>>
    /\ audio_queue' = Tail(audio_queue)
    /\ superseded' = superseded \cup {waudio.id} \cup Outdated(audio_queue)
    /\ UNCHANGED <<recorder_vars, handler_vars, wpc, waudio, text, tray_vars,
                   outcome_vars, engine_calls, engine_busy, raised,
                   pushed_during, zero_length, ops, last_start, stop_idle, other_vars>>

\* _worker_loop, lines 229-234: one turn of the drain loop, the queue not
\* being empty.
WorkerDrain ==
    /\ wpc = "drain"
    /\ audio_queue # <<>>
    /\ waudio' = Head(audio_queue)
    /\ audio_queue' = Tail(audio_queue)
    /\ superseded' = superseded \cup {waudio.id} \cup Outdated(audio_queue)
    /\ UNCHANGED <<recorder_vars, handler_vars, wpc, text, tray_vars,
                   outcome_vars, engine_calls, engine_busy, raised,
                   pushed_during, zero_length, ops, last_start, stop_idle, other_vars>>

\* _worker_loop, line 236, the drain loop having found the queue empty:
\* Transcriber.transcribe up to the engine call.  load_model returns at once
\* (run() loaded the model); a zero-length buffer returns "" without the
\* engine.
WorkerTranscribe ==
    /\ wpc = "drain"
    /\ audio_queue = <<>>
    /\ IF waudio.empty
       THEN /\ text' = ""
            /\ wpc' = "check"
            /\ UNCHANGED <<engine_calls, engine_busy>>
       ELSE /\ engine_calls' = [engine_calls EXCEPT ![waudio.id] = @ + 1]
            /\ engine_busy' = engine_busy + 1
            /\ wpc' = "engine"
            /\ UNCHANGED text
    /\ UNCHANGED <<recorder_vars, handler_vars, audio_queue, waudio, tray_vars,
                   outcome_vars, raised, pushed_during, zero_length, superseded,
                   ops, last_start, stop_idle, other_vars>>

\* Transcriber.transcribe, lines 126-141: what it returns for an engine call
\* that gave text ("text"), gave no segment ("empty") or raised ("raises").
transcribe(result) == IF result = "text" THEN "text" ELSE ""

\* The engine call returns; transcribe returns to the worker.
EngineReturn(result) ==
    /\ wpc = "engine"
    /\ text' = transcribe(result)
    /\ raised' = IF result = "raises"
                 THEN [raised EXCEPT ![waudio.id] = "engine"] ELSE raised
    /\ engine_busy' = engine_busy - 1
    /\ wpc' = "check"
    /\ UNCHANGED <<recorder_vars, handler_vars, audio_queue, waudio, tray_vars,
                   outcome_vars, engine_calls, pushed_during, zero_length,
                   superseded, ops, last_start, stop_idle, other_vars>>

\* What the check of line 241 finds: the buffer put last, and the number of
\* buffers waiting on the queue.
found(puts, q) == [newest |-> puts[Len(puts)], waiting |-> Len(q)]

\* A worker without the check after transcription: the result is delivered
\* whatever the queue holds.
WorkerCheckPass_unchecked ==
    /\ wpc = "check"
    /\ at_check' = [at_check EXCEPT ![waudio.id] = found(pushes, audio_queue)]
    /\ tray_transcribing' = FALSE
    /\ tray_queue_size' = 0
    /\ wpc' = "deliver"
    /\ UNCHANGED <<recorder_vars, handler_vars, audio_queue, waudio, text,
                   tray_recording, outcome_vars, history_vars, pushes,
                   deliveries, beside_order>>

\* A worker that puts the superseded buffer back on the queue.
WorkerSkipStale_requeue ==
    /\ wpc = "check"
    /\ audio_queue # <<>>
    /\ audio_queue' = Append(audio_queue, waudio)
    /\ at_check' = [at_check EXCEPT ![waudio.id] = found(pushes, audio_queue)]
    /\ wpc' = "get"
    /\ UNCHANGED <<recorder_vars, handler_vars, waudio, text, tray_vars,
                   outcome_vars, history_vars, pushes, deliveries,
                   beside_order>>

\* _worker_loop, lines 241-243: newer audio arrived, the result is dropped.
WorkerSkipStale ==
    /\ wpc = "check"
    /\ audio_queue # <<>>
    /\ at_check' = [at_check EXCEPT ![waudio.id] = found(pushes, audio_queue)]
    /\ wpc' = "get"
    /\ UNCHANGED <<recorder_vars, handler_vars, audio_queue, waudio, text,
                   tray_vars, outcome_vars, history_vars, pushes, deliveries,
                   beside_order>>

\* _worker_loop, lines 241-248: the queue is empty, the tray goes idle.
WorkerCheckPass ==
    /\ wpc = "check"
    /\ audio_queue = <<>>
    /\ at_check' = [at_check EXCEPT ![waudio.id] = found(pushes, audio_queue)]
    /\ tray_transcribing' = FALSE
    /\ tray_queue_size' = 0
    /\ wpc' = "deliver"
    /\ UNCHANGED <<recorder_vars, handler_vars, audio_queue, waudio, text,
                   tray_recording, outcome_vars, history_vars, pushes,
                   deliveries, beside_order>>

\* _worker_loop, lines 250-254 and 258-264: text is handed to wl-copy and
\* "done" is notified; popen is "ok" or "raises" (subprocess.Popen raised),
\* which the loop's except reports through notify_error.
WorkerDeliver(popen) ==
    /\ wpc = "deliver"
    /\ text # ""
    /\ IF popen = "ok"
       THEN /\ clipboard' = clipboard \cup {waudio.id}
            /\ deliveries' = Append(deliveries, waudio.id)
            /\ notifications' = notifications \cup {<<waudio.id, "done">>}
            /\ UNCHANGED <<raised, tray_transcribing>>
       ELSE /\ raised' = [raised EXCEPT ![waudio.id] = "deliver"]
            /\ notifications' = notifications \cup {<<waudio.id, "error">>}
            /\ tray_transcribing' = FALSE
            /\ UNCHANGED <<clipboard, deliveries>>
    /\ wpc' = "get"
    /\ UNCHANGED <<recorder_vars, handler_vars, audio_queue, waudio, text,
                   tray_recording, tray_queue_size, handler_errors,
                   engine_calls, engine_busy, pushed_during, zero_length,
                   superseded, ops, last_start, stop_idle, pushes, at_check,
                   beside_order>>

\* _worker_loop, lines 255-257: empty text.
WorkerNoSpeech ==
    /\ wpc = "deliver"
    /\ text = ""
    /\ notifications' = notifications \cup {<<waudio.id, "no_speech">>}
    /\ wpc' = "get"
    /\ UNCHANGED <<recorder_vars, handler_vars, audio_queue, waudio, text,
                   tray_vars, clipboard, handler_errors, history_vars, other_vars>>

Worker ==
    \/ WorkerGet
    \/ WorkerDrain
    \/ WorkerTranscribe
    \/ \E result \in {"text", "empty", "raises"} : EngineReturn(result)
    \/ WorkerSkipStale
    \/ WorkerCheckPass
    \/ \E popen \in {"ok", "raises"} : WorkerDeliver(popen)
    \/ WorkerNoSpeech

Next ==
    \/ \E query \in {"ok", "fails"}, open \in {"ok", "open_failed", "start_failed"} :
          StartRecording(query, open)
    \/ StopBegin
    \/ StopRecorder
    \/ StopNoAudio
    \/ StopNotify
    \/ QueuePut
    \/ \E d \in {0} \cup Devices, query \in {"ok", "fails"} : OnDeviceChange(d, query)
    \/ AudioCallback
    \/ WorkerGet
    \/ WorkerDrain
    \/ WorkerTranscribe
    \/ \E result \in {"text", "empty", "raises"} : EngineReturn(result)
    \/ WorkerSkipStale
    \/ WorkerCheckPass
    \/ \E popen \in {"ok", "raises"} : WorkerDeliver(popen)
    \/ WorkerNoSpeech

Spec == Init /\ [][Next]_vars

\* The worker thread is scheduled and every engine call returns.
FairSpec == Spec /\ WF_vars(Worker)

(***************************************************************************)
(* The recorder alone, its public methods called in any order by one       *)
(* caller, with the driver's callbacks in between.                         *)
(***************************************************************************)

rest_vars == <<hpc, pushed, audio_queue, worker_vars, tray_vars, outcome_vars,
               engine_calls, engine_busy, raised, pushed_during, zero_length,
               superseded, ops, last_start, session_vars, catalog_vars,
               select_vars, wait_vars, more_vars>>

\* The call just made.
Call(op, d, query, open, r) ==
    [op |-> op, d |-> d, query |-> query, open |-> open, raised |-> r]

CallStart(query, open) ==
    /\ nsessions < MaxSessions
    /\ nsessions' = nsessions + 1
    /\ RecorderStart(nsessions + 1, query, open)
    /\ last_call' = Call("start", device, query, open, start_raises(query, open))
    /\ UNCHANGED <<audio, rest_vars>>

CallStop ==
    /\ RecorderStop
    /\ last_call' = Call("stop", device, "ok", "ok", FALSE)
    /\ UNCHANGED <<nsessions, rest_vars>>

CallSetDevice(d, query) ==
    /\ device' = d
    /\ device_sample_rate' = set_device_rate(d, query)
    /\ last_call' = Call("set_device", d, query, "ok", set_device_raises(d, query))
    /\ UNCHANGED <<recording, audio_data, stream, stream_active, leaked,
                   audio, nsessions, stop_idle, rest_vars>>

RecorderNext ==
    \/ \E query \in {"ok", "fails"}, open \in {"ok", "open_failed", "start_failed"} :
          CallStart(query, open)
    \/ CallStop
    \/ \E d \in {0} \cup Devices, query \in {"ok", "fails"} : CallSetDevice(d, query)
    \/ AudioCallback

RecorderSpec == Init /\ [][RecorderNext]_vars

(***************************************************************************)
(* The pipeline at the grain of the recorder's lock: start() and stop()    *)
(* are split at every acquire and release of AudioRecorder._lock, and the  *)
(* driver's thread runs _audio_callback in between.  The toggle handler    *)
(* and the tray's device change run on the main thread, one at a time.     *)
(***************************************************************************)

\* _on_hotkey with is_recording false (read under the lock), then
\* AudioRecorder.start, lines 67-72: the rate query.
HotkeyStart(query) ==
    /\ hpc = "idle"
    /\ lock = "none"
    /\ ~is_recording
    /\ nsessions < MaxSessions
    /\ nsessions' = nsessions + 1
    /\ device_sample_rate' = start_rate(query)
    /\ ops' = Append(ops, "start")
    /\ stop_idle' = FALSE
    /\ delivered' = <<>>
    /\ late' = {}
    /\ flat' = <<>>
    /\ stream_rate' = 0
    /\ resample_rate' = 0
    /\ hpc' = "start"
    /\ UNCHANGED <<recording, audio_data, stream, stream_active, leaked, device,
                   audio, pushed, audio_queue, worker_vars, tray_vars,
                   outcome_vars, engine_calls, engine_busy, raised,
                   pushed_during, zero_length, superseded, last_start, lock,
                   cpc, indata,
                   apart_vars>>

\* AudioRecorder.start, line 74: with self._lock, entered.
StartAcquire ==
    /\ hpc = "start"
    /\ lock = "none"
    /\ lock' = "main"
    /\ hpc' = "start_locked"
    /\ UNCHANGED <<recorder_vars, audio, nsessions, pushed, audio_queue,
                   worker_vars, tray_vars, outcome_vars, history_vars, cpc,
                   indata, delivered, late, flat, stream_rate, resample_rate,
                   apart_vars>>

\* AudioRecorder.start, lines 75-76, and the release of the lock.
StartLocked ==
    /\ hpc = "start_locked"
    /\ audio_data' = <<>>
    /\ recording' = TRUE
    /\ lock' = "none"
    /\ hpc' = "start_stream"
    /\ UNCHANGED <<stream, stream_active, leaked, device, device_sample_rate,
                   audio, nsessions, pushed, audio_queue, worker_vars,
                   tray_vars, outcome_vars, history_vars, cpc, indata,
                   delivered, late, flat, stream_rate, resample_rate,
                   apart_vars>>

\* AudioRecorder.start, lines 78-86: the stream is opened at
\* _device_sample_rate and started; then _start_recording, lines 185-187,
\* which an exception of start() skips.
StartStream(open) ==
    /\ hpc = "start_stream"
    /\ stream' = IF open = "open_failed" THEN stream ELSE nsessions
    /\ stream_active' = IF open = "open_failed" THEN stream_active
                        ELSE open = "ok"
    /\ leaked' = IF open # "open_failed" /\ stream # 0 /\ stream_active
                 THEN leaked + 1 ELSE leaked
    /\ stream_rate' = IF open = "open_failed" THEN stream_rate
                      ELSE device_sample_rate
    /\ tray_recording' = IF open = "ok" THEN TRUE ELSE tray_recording
    /\ last_start' = open
    /\ hpc' = "idle"
    /\ UNCHANGED <<recording, audio_data, device, device_sample_rate, audio,
                   nsessions, pushed, audio_queue, worker_vars,
                   tray_transcribing, tray_queue_size, outcome_vars,
                   engine_calls, engine_busy, raised, pushed_during,
                   zero_length, superseded, ops, stop_idle, lock, cpc, indata,
                   delivered, late, flat, resample_rate,
                   apart_vars>>

\* _on_hotkey with is_recording true (read under the lock): _stop_recording
\* up to the call of recorder.stop().
HotkeyStop ==
    /\ lock = "none"
    /\ StopBegin

\* AudioRecorder.stop, line 90: with self._lock, entered.
StopAcquireFirst ==
    /\ hpc = "stop"
    /\ lock = "none"
    /\ lock' = "main"
    /\ hpc' = "stop_locked"
    /\ UNCHANGED <<recorder_vars, audio, nsessions, pushed, audio_queue,
                   worker_vars, tray_vars, outcome_vars, history_vars, cpc,
                   indata, delivered, late, flat, stream_rate, resample_rate,
                   apart_vars>>

\* A stop() that, inside its first locked section, waits for the engine to
\* be free.
StopLockedFirst_engine_idle ==
    /\ hpc = "stop_locked"
    /\ engine_busy = 0
    /\ stop_idle' = ~recording
    /\ recording' = FALSE
    /\ lock' = "none"
    /\ hpc' = "stop_stream"
    /\ UNCHANGED <<audio_data, stream, stream_active, leaked, device,
                   device_sample_rate, audio, nsessions, pushed, audio_queue,
                   worker_vars, tray_vars, outcome_vars, engine_calls,
                   engine_busy, raised, pushed_during, zero_length, superseded,
                   ops, last_start, cpc, indata, delivered, late, flat,
                   stream_rate, resample_rate,
                   apart_vars>>

\* A stop() whose first locked section reaches over the stopping of the
\* stream: the lock is still held when stream.stop() is called.
StopLockedFirst_keeps_lock ==
    /\ hpc = "stop_locked"
    /\ stop_idle' = ~recording
    /\ recording' = FALSE
    /\ hpc' = "stop_stream"
    /\ UNCHANGED <<audio_data, stream, stream_active, leaked, device,
                   device_sample_rate, audio, nsessions, pushed, audio_queue,
                   worker_vars, tray_vars, outcome_vars, engine_calls,
                   engine_busy, raised, pushed_during, zero_length, superseded,
                   ops, last_start, lock, cpc, indata, delivered, late, flat,
                   stream_rate, resample_rate,
                   apart_vars>>

\* AudioRecorder.stop, line 91, and the release of the lock.
StopLockedFirst ==
    /\ hpc = "stop_locked"
    /\ stop_idle' = ~recording
    /\ recording' = FALSE
    /\ lock' = "none"
    /\ hpc' = "stop_stream"
    /\ UNCHANGED <<audio_data, stream, stream_active, leaked, device,
                   device_sample_rate, audio, nsessions, pushed, audio_queue,
                   worker_vars, tray_vars, outcome_vars, engine_calls,
                   engine_busy, raised, pushed_during, zero_length, superseded,
                   ops, last_start, cpc, indata, delivered, late, flat,
                   stream_rate, resample_rate,
                   apart_vars>>

\* AudioRecorder.stop, lines 93-96: stream.stop() returns once the callback
\* in progress has returned; no callback is made after it.
StopStream ==
    /\ hpc = "stop_stream"
    /\ stream_active => cpc = "idle"
    /\ stream' = 0
    /\ stream_active' = FALSE
    /\ hpc' = "stop_collect"
    /\ UNCHANGED <<recording, audio_data, leaked, device, device_sample_rate,
                   audio, nsessions, pushed, audio_queue, worker_vars,
                   tray_vars, outcome_vars, history_vars, other_vars>>

\* AudioRecorder.stop, line 98: with self._lock, entered.
StopAcquireSecond ==
    /\ hpc = "stop_collect"
    /\ lock = "none"
    /\ lock' = "main"
    /\ hpc' = "stop_collecting"
    /\ UNCHANGED <<recorder_vars, audio, nsessions, pushed, audio_queue,
                   worker_vars, tray_vars, outcome_vars, history_vars, cpc,
                   indata, delivered, late, flat, stream_rate, resample_rate,
                   apart_vars>>

\* AudioRecorder.stop, lines 99-116, and the release of the lock: the
\* chunks are concatenated, the buffer cleared, the audio resampled from
\* _device_sample_rate.
StopLockedSecond ==
    /\ hpc = "stop_collecting"
    /\ audio' = stop_audio(audio_data, device_sample_rate)
    /\ flat' = audio_data
    /\ resample_rate' = device_sample_rate
    /\ audio_data' = stop_audio_data(audio_data)
    /\ zero_length' = IF audio'.len = 0 THEN zero_length \cup {nsessions}
                      ELSE zero_length
    /\ lock' = "none"
    /\ hpc' = "stopped"
    /\ UNCHANGED <<recording, stream, stream_active, leaked, device,
                   device_sample_rate, nsessions, pushed, audio_queue,
                   worker_vars, tray_vars, outcome_vars, engine_calls,
                   engine_busy, raised, pushed_during, superseded, ops,
                   last_start, stop_idle, cpc, indata, delivered, late,
                   stream_rate,
                   apart_vars>>

\* The driver calls _audio_callback with the next chunk of the started
\* stream, lines 57-60.
CallbackInvoked ==
    /\ stream_active
    /\ cpc = "idle"
    /\ Len(delivered) < MaxChunks
    /\ indata' = <<nsessions, Len(delivered) + 1>>
    /\ delivered' = Append(delivered, indata')
    /\ cpc' = "acquire"
    /\ UNCHANGED <<recorder_vars, handler_vars, audio_queue, worker_vars,
                   tray_vars, outcome_vars, history_vars, lock, late, flat,
                   stream_rate, resample_rate,
                   apart_vars>>

\* _audio_callback, line 61: with self._lock, entered.
CallbackAcquire ==
    /\ cpc = "acquire"
    /\ lock = "none"
    /\ lock' = "callback"
    /\ cpc' = "locked"
    /\ UNCHANGED <<recorder_vars, handler_vars, audio_queue, worker_vars,
                   tray_vars, outcome_vars, history_vars, indata, delivered,
                   late, flat, stream_rate, resample_rate,
                   apart_vars>>

\* A callback that appends without looking at the running flag.
callback_audio_data_unchecked(chunks, chunk) == Append(chunks, chunk)

\* _audio_callback, lines 62-63: what it leaves in _audio_data.
callback_audio_data(chunks, chunk) ==
    IF recording THEN Append(chunks, chunk) ELSE chunks

\* _audio_callback, lines 62-63, and the release of the lock.  The chunk is
\* late when stop() has been through its first locked section.
CallbackLocked ==
    /\ cpc = "locked"
    /\ audio_data' = callback_audio_data(audio_data, indata)
    /\ late' = IF hpc = "stop_stream" THEN late \cup {indata} ELSE late
    /\ lock' = "none"
    /\ indata' = <<0, 0>>
    /\ cpc' = "idle"
    /\ UNCHANGED <<recording, stream, stream_active, leaked, device,
                   device_sample_rate, handler_vars, audio_queue, worker_vars,
                   tray_vars, outcome_vars, history_vars, delivered, flat,
                   stream_rate, resample_rate,
                   apart_vars>>

LockNext ==
    \/ \E query \in {"ok", "fails"} : HotkeyStart(query)
    \/ StartAcquire
    \/ StartLocked
    \/ \E open \in {"ok", "open_failed", "start_failed"} : StartStream(open)
    \/ HotkeyStop
    \/ StopAcquireFirst
    \/ StopLockedFirst
    \/ StopStream
    \/ StopAcquireSecond
    \/ StopLockedSecond
    \/ StopNoAudio
    \/ StopNotify
    \/ QueuePut
    \/ \E d \in {0} \cup Devices, query \in {"ok", "fails"} : OnDeviceChange(d, query)
    \/ CallbackInvoked
    \/ CallbackAcquire
    \/ CallbackLocked
    \/ WorkerGet
    \/ WorkerDrain
    \/ WorkerTranscribe
    \/ \E result \in {"text", "empty", "raises"} : EngineReturn(result)
    \/ WorkerSkipStale
    \/ WorkerCheckPass
    \/ \E popen \in {"ok", "raises"} : WorkerDeliver(popen)
    \/ WorkerNoSpeech

LockSpec == Init /\ [][LockNext]_vars

\* The steps that release the lock.
Release == StartLocked \/ StopLockedFirst \/ StopLockedSecond \/ CallbackLocked

\* A thread inside a locked section goes on to release the lock, and the
\* driver's thread gets a free lock it waits for.  Nothing is assumed of the
\* worker: an engine call may last for ever.
LockFairSpec == LockSpec /\ WF_vars(Release) /\ WF_vars(CallbackAcquire)

\* The steps of stop() outside its locked sections: the two entries into
\* with self._lock and the stopping of the stream.
StopProceeds == StopAcquireFirst \/ StopStream \/ StopAcquireSecond

\* Both threads are scheduled: the main thread goes on inside stop() as
\* well.  Nothing is assumed of the worker.
LockLiveSpec == LockFairSpec /\ WF_vars(StopProceeds)

(***************************************************************************)
(* The toggle signal (hotkey.py, main.py, audio.py).  signal.signal makes  *)
(* _handle_signal run on the main thread, between two of its steps,        *)
(* whatever the main thread is executing: a signal that arrives while a    *)
(* call of _handle_signal is in progress is handled on top of it, and the  *)
(* call below goes on when the one on top has returned.  The driver's      *)
(* callbacks run on their own thread.  The streams open and start without  *)
(* error here.                                                             *)
(***************************************************************************)

\* A call of _handle_signal: where it is, and _stop_recording's local audio
\* with the session it is of.
Frame(pc) == [pc |-> pc, audio |-> NoAudio, id |-> 0]

\* The innermost call, which is the one the main thread executes.
Top == frames[Len(frames)]
top_at(pc) == frames # <<>> /\ Top.pc = pc

\* The innermost call goes to pc; it returns.
goto(pc) == [frames EXCEPT ![Len(frames)].pc = pc]
returned == SubSeq(frames, 1, Len(frames) - 1)

\* What no step of the main thread's handler touches, and the state of the
\* driver's thread.
signal_frame == <<hpc, audio, device, worker_vars, clipboard, notifications,
                  history_vars, at_check, deliveries, beside_signal>>
callback_side == <<cpc, indata, delivered, late, flat, stream_rate,
                   resample_rate>>

\* SIGUSR1 is handled: _handle_signal, lines 27-31, calls _on_hotkey.
Signal ==
    /\ signals < MaxSignals
    /\ signals' = signals + 1
    /\ frames' = Append(frames, Frame("on_hotkey"))
    /\ UNCHANGED <<recorder_vars, nsessions, pushed, audio_queue, tray_vars,
                   handler_errors, pushes, lock, callback_side, signal_frame>>

\* with self._lock, entered: threading.Lock is free.  It is not re-entrant.
lock_free == lock = "none"

\* is_recording, line 121: with self._lock, entered.
IsRecordingAcquire ==
    /\ top_at("on_hotkey")
    /\ lock_free
    /\ lock' = "main"
    /\ frames' = goto("is_recording")
    /\ UNCHANGED <<recorder_vars, nsessions, pushed, audio_queue, tray_vars,
                   handler_errors, pushes, callback_side, signals,
                   signal_frame>>

\* is_recording, line 122, the release of the lock, and _on_hotkey, lines
\* 176-179.
IsRecordingLocked ==
    /\ top_at("is_recording")
    /\ lock' = "none"
    /\ frames' = goto(IF recording THEN "stop" ELSE "start")
    /\ UNCHANGED <<recorder_vars, nsessions, pushed, audio_queue, tray_vars,
                   handler_errors, pushes, callback_side, signals,
                   signal_frame>>

\* AudioRecorder.start, lines 67-72: the rate query.
SignalStartQuery(query) ==
    /\ top_at("start")
    /\ device_sample_rate' = start_rate(query)
    /\ frames' = goto("start_acquire")
    /\ UNCHANGED <<recording, audio_data, stream, stream_active, leaked,
                   nsessions, pushed, audio_queue, tray_vars, handler_errors,
                   pushes, lock, callback_side, signals, signal_frame>>

\* AudioRecorder.start, line 74: with self._lock, entered.
SignalStartAcquire ==
    /\ top_at("start_acquire")
    /\ lock_free
    /\ lock' = "main"
    /\ frames' = goto("start_locked")
    /\ UNCHANGED <<recorder_vars, nsessions, pushed, audio_queue, tray_vars,
                   handler_errors, pushes, callback_side, signals,
                   signal_frame>>

\* AudioRecorder.start, lines 75-76, and the release of the lock.
SignalStartLocked ==
    /\ top_at("start_locked")
    /\ audio_data' = <<>>
    /\ recording' = TRUE
    /\ lock' = "none"
    /\ frames' = goto("start_stream")
    /\ UNCHANGED <<stream, stream_active, leaked, device_sample_rate,
                   nsessions, pushed, audio_queue, tray_vars, handler_errors,
                   pushes, callback_side, signals, signal_frame>>

\* AudioRecorder.start, lines 78-86: a stream is opened, assigned to _stream
\* and started; _start_recording, lines 185-187; the handler returns.  A
\* started stream _stream still refers to is closed by nobody.
SignalStartStream ==
    /\ top_at("start_stream")
    /\ nsessions' = nsessions + 1
    /\ stream' = nsessions + 1
    /\ stream_active' = TRUE
    /\ leaked' = IF stream # 0 /\ stream_active THEN leaked + 1 ELSE leaked
    /\ delivered' = <<>>
    /\ tray_recording' = TRUE
    /\ frames' = returned
    /\ UNCHANGED <<recording, audio_data, device_sample_rate, pushed,
                   audio_queue, tray_transcribing, tray_queue_size,
                   handler_errors, pushes, lock, cpc, indata, late, flat,
                   stream_rate, resample_rate, signals, signal_frame>>

\* _stop_recording, lines 191-194.
SignalStopBegin ==
    /\ top_at("stop")
    /\ tray_recording' = FALSE
    /\ tray_transcribing' = TRUE
    /\ frames' = goto("stop_acquire")
    /\ UNCHANGED <<recorder_vars, nsessions, pushed, audio_queue,
                   tray_queue_size, handler_errors, pushes, lock,
                   callback_side, signals, signal_frame>>

\* AudioRecorder.stop, line 90: with self._lock, entered.
SignalStopAcquireFirst ==
    /\ top_at("stop_acquire")
    /\ lock_free
    /\ lock' = "main"
    /\ frames' = goto("stop_locked")
    /\ UNCHANGED <<recorder_vars, nsessions, pushed, audio_queue, tray_vars,
                   handler_errors, pushes, callback_side, signals,
                   signal_frame>>

\* AudioRecorder.stop, line 91, and the release of the lock.
SignalStopLockedFirst ==
    /\ top_at("stop_locked")
    /\ recording' = FALSE
    /\ lock' = "none"
    /\ frames' = goto("stop_stream")
    /\ UNCHANGED <<audio_data, stream, stream_active, leaked,
                   device_sample_rate, nsessions, pushed, audio_queue,
                   tray_vars, handler_errors, pushes, callback_side, signals,
                   signal_frame>>

\* AudioRecorder.stop, lines 93-96: if _stream is set it is stopped, which
\* waits for the callback in progress, closed and forgotten.
SignalStopStream ==
    /\ top_at("stop_stream")
    /\ (stream # 0 /\ stream_active) => cpc = "idle"
    /\ stream' = 0
    /\ stream_active' = FALSE
    /\ frames' = goto("stop_collect")
    /\ UNCHANGED <<recording, audio_data, leaked, device_sample_rate,
                   nsessions, pushed, audio_queue, tray_vars, handler_errors,
                   pushes, lock, callback_side, signals, signal_frame>>

\* AudioRecorder.stop, line 98: with self._lock, entered.
SignalStopAcquireSecond ==
    /\ top_at("stop_collect")
    /\ lock_free
    /\ lock' = "main"
    /\ frames' = goto("stop_collecting")
    /\ UNCHANGED <<recorder_vars, nsessions, pushed, audio_queue, tray_vars,
                   handler_errors, pushes, callback_side, signals,
                   signal_frame>>

\* AudioRecorder.stop, lines 99-116, and the release of the lock.
SignalStopLockedSecond ==
    /\ top_at("stop_collecting")
    /\ frames' = [frames EXCEPT
                     ![Len(frames)] =
                         [pc |-> "stopped",
                          audio |-> stop_audio(audio_data, device_sample_rate),
                          id |-> nsessions]]
    /\ audio_data' = stop_audio_data(audio_data)
    /\ lock' = "none"
    /\ UNCHANGED <<recording, stream, stream_active, leaked,
                   device_sample_rate, nsessions, pushed, audio_queue,
                   tray_vars, handler_errors, pushes, callback_side, signals,
                   signal_frame>>

\* _stop_recording, lines 198-212: "No audio recorded", or the put; the
\* handler returns.
SignalStopReturn ==
    /\ top_at("stopped")
    /\ IF Top.audio.len = 0
       THEN /\ handler_errors' =
                   handler_errors \cup {<<Top.id, "No audio recorded">>}
            /\ tray_transcribing' = FALSE
            /\ UNCHANGED <<pushed, audio_queue, tray_queue_size, pushes>>
       ELSE /\ pushed' = pushed \cup {Top.id}
            /\ audio_queue' = Append(audio_queue, [id |-> Top.id, empty |-> FALSE])
            /\ tray_queue_size' = Len(audio_queue) + 1
            /\ pushes' = Append(pushes, Top.id)
            /\ UNCHANGED <<handler_errors, tray_transcribing>>
    /\ frames' = returned
    /\ UNCHANGED <<recorder_vars, nsessions, tray_recording, lock,
                   callback_side, signals, signal_frame>>

SignalNext ==
    \/ Signal
    \/ IsRecordingAcquire
    \/ IsRecordingLocked
    \/ \E query \in {"ok", "fails"} : SignalStartQuery(query)
    \/ SignalStartAcquire
    \/ SignalStartLocked
    \/ SignalStartStream
    \/ SignalStopBegin
    \/ SignalStopAcquireFirst
    \/ SignalStopLockedFirst
    \/ SignalStopStream
    \/ SignalStopAcquireSecond
    \/ SignalStopLockedSecond
    \/ SignalStopReturn
    \/ CallbackInvoked
    \/ CallbackAcquire
    \/ CallbackLocked

SignalSpec == Init /\ [][SignalNext]_vars

(***************************************************************************)
(* The processing notification (notifications.py, main.py).  The main      *)
(* thread runs _stop_recording and, when it is back in Gtk.main, the idle  *)
(* callbacks and the timeouts of the GLib main loop; the worker thread     *)
(* calls notify_transcription_complete, notify_no_speech and notify_error, *)
(* which stop the processing notification on the worker thread itself.     *)
(* Notifications are enabled.  A recording is one step here, from the      *)
(* toggle that starts it to recorder.stop().                               *)
(***************************************************************************)

\* _stop_processing_notification, lines 295-308: the timer source is
\* removed, the notification closed, and the three fields are reset.
timers_after_stop == IF processing_timer_id # 0
                     THEN timers \ {processing_timer_id} ELSE timers
open_after_stop == IF processing_notification # 0
                   THEN open_notices \ {processing_notification}
                   ELSE open_notices

StopProcessingNotification ==
    /\ timers' = timers_after_stop
    /\ open_notices' = open_after_stop
    /\ processing_timer_id' = 0
    /\ processing_notification' = 0
    /\ processing_start_time' = FALSE

\* _notify, lines 66-88: the notification is sent by an idle callback.
\* notify_error, notify_no_speech and notify_transcription_complete, lines
\* 310-344: the processing notification is stopped, then _notify.
NotifyOutcome ==
    /\ StopProcessingNotification
    /\ idle_queue' = Append(idle_queue, "send")
    /\ UNCHANGED notices_made

\* What the steps of this part leave alone.
worker_history == <<engine_calls, engine_busy, pushed_during, zero_length,
                    superseded, ops, last_start, stop_idle>>
notice_frame == <<recorder_vars, worker_history, beside_notice>>

\* _stop_recording, lines 189-205, with audio: notify_recording_stopped,
\* lines 232-266, sets the start time and gives _create to GLib.idle_add.
NoticeRecordingStopped ==
    /\ hpc = "idle"
    /\ nsessions < MaxSessions
    /\ nsessions' = nsessions + 1
    /\ audio' = [raised |-> FALSE, len |-> 1]
    /\ tray_recording' = FALSE
    /\ tray_transcribing' = TRUE
    /\ processing_start_time' = TRUE
    /\ idle_queue' = Append(idle_queue, "create")
    /\ hpc' = "put"
    /\ UNCHANGED <<pushed, audio_queue, worker_vars, tray_queue_size,
                   outcome_vars, raised, pushes, at_check, deliveries,
                   processing_notification, processing_timer_id, open_notices,
                   timers, notices_made, notice_frame>>

\* _stop_recording, lines 189-203, without audio: notify_error on the main
\* thread.
NoticeNoAudio ==
    /\ hpc = "idle"
    /\ nsessions < MaxSessions
    /\ nsessions' = nsessions + 1
    /\ handler_errors' =
           handler_errors \cup {<<nsessions + 1, "No audio recorded">>}
    /\ tray_recording' = FALSE
    /\ tray_transcribing' = FALSE
    /\ NotifyOutcome
    /\ UNCHANGED <<hpc, audio, pushed, audio_queue, worker_vars,
                   tray_queue_size, clipboard, notifications, raised, pushes,
                   at_check, deliveries, notice_frame>>

\* _create, lines 246-264, run by the main loop: a notification is made,
\* assigned and shown (it is "shown" or show() "fails"), and the update
\* timer is added and assigned.  _send, lines 72-86.
RunIdle(show) ==
    /\ hpc = "idle"
    /\ idle_queue # <<>>
    /\ idle_queue' = Tail(idle_queue)
    /\ IF Head(idle_queue) = "create"
       THEN /\ notices_made' = notices_made + 1
            /\ processing_notification' = notices_made + 1
            /\ open_notices' = IF show = "shown"
                               THEN open_notices \cup {notices_made + 1}
                               ELSE open_notices
            /\ processing_timer_id' = notices_made + 1
            /\ timers' = timers \cup {notices_made + 1}
       ELSE /\ show = "shown"
            /\ UNCHANGED <<notices_made, processing_notification, open_notices,
                           processing_timer_id, timers>>
    /\ UNCHANGED <<handler_vars, audio_queue, worker_vars, tray_vars,
                   outcome_vars, raised, pushes, at_check, deliveries,
                   processing_start_time, notice_frame>>

\* _update_processing_notification, lines 268-293, called by the main loop
\* for the timeout source t: the source is removed when it returns False.
TimerTick(t, update) ==
    /\ hpc = "idle"
    /\ t \in timers
    /\ IF processing_notification = 0 \/ ~processing_start_time
          \/ update = "fails"
       THEN /\ timers' = timers \ {t}
            /\ UNCHANGED open_notices
       ELSE /\ open_notices' = open_notices \cup {processing_notification}
            /\ UNCHANGED timers
    /\ UNCHANGED <<handler_vars, audio_queue, worker_vars, tray_vars,
                   outcome_vars, raised, pushes, at_check, deliveries,
                   processing_notification, processing_timer_id,
                   processing_start_time, idle_queue, notices_made, notice_frame>>

\* _worker_loop, lines 250-254 and 258-264, with the notification calls:
\* notify_transcription_complete, or notify_error when Popen raised.
NoticeDeliver(popen) ==
    /\ wpc = "deliver"
    /\ text # ""
    /\ IF popen = "ok"
       THEN /\ clipboard' = clipboard \cup {waudio.id}
            /\ deliveries' = Append(deliveries, waudio.id)
            /\ notifications' = notifications \cup {<<waudio.id, "done">>}
            /\ UNCHANGED <<raised, tray_transcribing>>
       ELSE /\ raised' = [raised EXCEPT ![waudio.id] = "deliver"]
            /\ notifications' = notifications \cup {<<waudio.id, "error">>}
            /\ tray_transcribing' = FALSE
            /\ UNCHANGED <<clipboard, deliveries>>
    /\ NotifyOutcome
    /\ wpc' = "get"
    /\ UNCHANGED <<handler_vars, audio_queue, waudio, text, tray_recording,
                   tray_queue_size, handler_errors, pushes, at_check,
                   notice_frame>>

\* _worker_loop, lines 255-257, with notify_no_speech.
NoticeNoSpeech ==
    /\ wpc = "deliver"
    /\ text = ""
    /\ notifications' = notifications \cup {<<waudio.id, "no_speech">>}
    /\ NotifyOutcome
    /\ wpc' = "get"
    /\ UNCHANGED <<handler_vars, audio_queue, waudio, text, tray_vars,
                   clipboard, handler_errors, raised, pushes, at_check,
                   deliveries, notice_frame>>

NoticeNext ==
    \/ NoticeRecordingStopped
    \/ NoticeNoAudio
    \/ QueuePut
    \/ \E show \in {"shown", "fails"} : RunIdle(show)
    \/ \E t \in timers, update \in {"ok", "fails"} : TimerTick(t, update)
    \/ WorkerGet
    \/ WorkerDrain
    \/ WorkerTranscribe
    \/ \E result \in {"text", "empty", "raises"} : EngineReturn(result)
    \/ WorkerSkipStale
    \/ WorkerCheckPass
    \/ \E popen \in {"ok", "raises"} : NoticeDeliver(popen)
    \/ NoticeNoSpeech

NoticeSpec == Init /\ [][NoticeNext]_vars

(***************************************************************************)
(* The device catalog (audio.py): list_audio_devices and the waits for the *)
(* audio service and for the microphones.  A name is the sequence of its   *)
(* characters.                                                             *)
(***************************************************************************)

\* The ASCII characters of codes 32 (space) to 122 (z), in the order of
\* their codes.  The three that no device name of the model uses stand by
\* their names.
Ascii == <<
    " ", "!", "QUOTE", "#", "$", "%", "&", "'", "(", ")", "*", "+", ",",
    "-", ".", "/", "0", "1", "2", "3", "4", "5", "6", "7", "8", "9", ":",
    ";", "<", "=", ">", "?", "@", "A", "B", "C", "D", "E", "F", "G", "H",
    "I", "J", "K", "L", "M", "N", "O", "P", "Q", "R", "S", "T", "U", "V",
    "W", "X", "Y", "Z", "[", "BACKSLASH", "]", "^", "_", "GRAVE", "a", "b",
    "c", "d", "e", "f", "g", "h", "i", "j", "k", "l", "m", "n", "o", "p",
    "q", "r", "s", "t", "u", "v", "w", "x", "y", "z" >>

\* ord(c), for a character of Ascii.
Chars == {Ascii[i] : i \in 1..Len(Ascii)}
Code == [c \in Chars |-> 31 + (CHOOSE i \in 1..Len(Ascii) : Ascii[i] = c)]
ord(c) == Code[c]

\* str.lower(), character by character: "A".."Z" become "a".."z".
LowerOf == [c \in Chars |-> IF Code[c] >= Code["A"] /\ Code[c] <= Code["Z"]
                            THEN Ascii[Code[c] + 32 - 31] ELSE c]
lower_char(c) == LowerOf[c]
lower(name) == [i \in 1..Len(name) |-> lower_char(name[i])]

\* kw in name, for strings: kw is found at some position of name.
contains(name, kw) ==
    \E i \in 0..(Len(name) - Len(kw)) : SubSeq(name, i + 1, i + Len(kw)) = kw

\* any(kw in name for kw in kws)
any_in(kws, name) == \E k \in 1..Len(kws) : contains(name, kws[k])

\* s < t, for strings: the order of Python's str, by character codes.
RECURSIVE str_less(_, _)
str_less(s, t) ==
    IF t = <<>> THEN FALSE
    ELSE IF s = <<>> THEN TRUE
    ELSE IF ord(s[1]) # ord(t[1]) THEN ord(s[1]) < ord(t[1])
    ELSE str_less(Tail(s), Tail(t))

\* list_audio_devices: keywords that suggest a real microphone.
mic_positive == <<
    <<"m", "i", "c">>,
    <<"i", "n", "p", "u", "t">>,
    <<"l", "i", "n", "e">>,
    <<"s", "c", "a", "r", "l", "e", "t", "t">>,
    <<"f", "o", "c", "u", "s", "r", "i", "t", "e">>,
    <<"r", "o", "d", "e">>,
    <<"b", "l", "u", "e">>,
    <<"s", "h", "u", "r", "e">>,
    <<"a", "t", "2", "0", "2", "0">>,
    <<"y", "e", "t", "i">>,
    <<"s", "n", "o", "w", "b", "a", "l", "l">>,
    <<"u", "s", "b", " ", "a", "u", "d", "i", "o">>,
    <<"h", "e", "a", "d", "s", "e", "t">> >>

\* list_audio_devices: keywords that indicate not a microphone.
mic_negative == <<
    <<"m", "o", "n", "i", "t", "o", "r">>,
    <<"o", "u", "t", "p", "u", "t">>,
    <<"h", "d", "m", "i">>,
    <<"d", "i", "s", "p", "l", "a", "y", "p", "o", "r", "t">>,
    <<"s", "p", "e", "a", "k", "e", "r">>,
    <<"h", "e", "a", "d", "p", "h", "o", "n", "e">>,
    <<"s", "p", "d", "i", "f">>,
    <<"f", "r", "o", "n", "t">>,
    <<"s", "u", "r", "r", "o", "u", "n", "d">>,
    <<"i", "e", "c", "9", "5", "8">>,
    <<"d", "m", "i", "x">>,
    <<"s", "p", "l", "i", "t">>,
    <<"r", "e", "a", "r">> >>

\* list_audio_devices: virtual device names, excluded entirely.
virtual_devices == <<
    <<"s", "y", "s", "d", "e", "f", "a", "u", "l", "t">>,
    <<"p", "i", "p", "e", "w", "i", "r", "e">>,
    <<"d", "e", "f", "a", "u", "l", "t">>,
    <<"p", "u", "l", "s", "e">>,
    <<"n", "u", "l", "l">> >>

\* "(hw:"
hw_mark == <<"(", "h", "w", ":">>

\* A filter that takes a hardware device before it looks at the keywords
\* that exclude.
keep_hw_first(dev) ==
    LET name_lower == lower(dev.name)
    IN  IF dev.max_input_channels <= 0 THEN FALSE
        ELSE IF contains(dev.name, hw_mark) THEN TRUE
        ELSE IF \E k \in 1..Len(virtual_devices) : name_lower = virtual_devices[k]
        THEN FALSE
        ELSE IF any_in(mic_negative, name_lower) THEN FALSE
        ELSE IF dev.max_input_channels > 8 THEN FALSE
        ELSE any_in(mic_positive, name_lower)

\* list_audio_devices, lines 145-168: whether the loop keeps a device of
\* sd.query_devices(), its tests in the order of the code.
keep(dev) ==
    LET name_lower == lower(dev.name)
    IN  IF dev.max_input_channels <= 0 THEN FALSE
        ELSE IF \E k \in 1..Len(virtual_devices) : name_lower = virtual_devices[k]
        THEN FALSE
        ELSE IF any_in(mic_negative, name_lower) THEN FALSE
        ELSE IF dev.max_input_channels > 8 THEN FALSE
        ELSE contains(dev.name, hw_mark) \/ any_in(mic_positive, name_lower)

\* list_audio_devices, lines 169-174: the entry of the device at position i
\* (enumerate counts from 0).
entry(raw, i) ==
    [index |-> i - 1, name |-> raw[i].name,
     channels |-> raw[i].max_input_channels,
     sample_rate |-> raw[i].default_samplerate]

\* list_audio_devices, lines 145-174: the entries of the kept devices, in
\* the order of enumeration, from position i on.
RECURSIVE inputs_from(_, _)
inputs_from(raw, i) ==
    IF i > Len(raw) THEN <<>>
    ELSE (IF keep(raw[i]) THEN <<entry(raw, i)>> ELSE <<>>)
             \o inputs_from(raw, i + 1)

\* list_audio_devices, line 177: the sort key, and its order (a tuple of an
\* int and a str).
hw_rank(d) == IF contains(d.name, hw_mark) THEN 0 ELSE 1
\* A sort by name alone: key=lambda d: d["name"].
key_less_by_name(a, b) == str_less(a.name, b.name)
key_less(a, b) ==
    \/ hw_rank(a) < hw_rank(b)
    \/ hw_rank(a) = hw_rank(b) /\ str_less(a.name, b.name)

\* list.sort is stable: an entry goes behind the entries whose key is not
\* greater.
RECURSIVE insert(_, _)
insert(d, sorted) ==
    IF sorted = <<>> THEN <<d>>
    ELSE IF key_less(d, Head(sorted)) THEN <<d>> \o sorted
    ELSE <<Head(sorted)>> \o insert(d, Tail(sorted))
RECURSIVE sort(_)
sort(entries) ==
    IF entries = <<>> THEN <<>>
    ELSE insert(entries[Len(entries)], sort(SubSeq(entries, 1, Len(entries) - 1)))

\* list_audio_devices, for what sd.query_devices() gives.
list_audio_devices(raw) == sort(inputs_from(raw, 1))

\* Device names of the model.
\* "HDMI Monitor Output (hw:2,3)"
HdmiMonitorOutput == <<
    "H", "D", "M", "I", " ", "M", "o", "n", "i", "t", "o", "r", " ", "O",
    "u", "t", "p", "u", "t", " ", "(", "h", "w", ":", "2", ",", "3", ")" >>
\* "USB Headset Mic"
UsbHeadsetMic == <<
    "U", "S", "B", " ", "H", "e", "a", "d", "s", "e", "t", " ", "M", "i",
    "c" >>
\* "HDA Intel (hw:0,0)"
HdaIntel == <<
    "H", "D", "A", " ", "I", "n", "t", "e", "l", " ", "(", "h", "w", ":",
    "0", ",", "0", ")" >>
\* "Mixer (hw:1,0)"
Mixer == <<
    "M", "i", "x", "e", "r", " ", "(", "h", "w", ":", "1", ",", "0", ")" >>
\* "Default"
Default == <<"D", "e", "f", "a", "u", "l", "t">>
\* "Webcam C920"
WebcamC920 == <<"W", "e", "b", "c", "a", "m", " ", "C", "9", "2", "0">>
\* "Blue Yeti"
BlueYeti == <<"B", "l", "u", "e", " ", "Y", "e", "t", "i">>
\* "Bluetooth Speaker"
BluetoothSpeaker == <<
    "B", "l", "u", "e", "t", "o", "o", "t", "h", " ", "S", "p", "e", "a",
    "k", "e", "r" >>
\* "Audio (HW:1,0)"
AudioUpperHw == <<
    "A", "u", "d", "i", "o", " ", "(", "H", "W", ":", "1", ",", "0", ")" >>

\* A device of sd.query_devices().
Dev(name, channels) ==
    [name |-> name, max_input_channels |-> channels, default_samplerate |-> 48000]

\* The devices the model's hosts have.
DevicePool == {
    Dev(HdmiMonitorOutput, 2), Dev(UsbHeadsetMic, 1), Dev(UsbHeadsetMic, 10),
    Dev(HdaIntel, 8), Dev(Mixer, 9), Dev(Mixer, 2), Dev(Default, 2),
    Dev(WebcamC920, 2),
    Dev(BlueYeti, 0), Dev(BlueYeti, 2), Dev(BluetoothSpeaker, 1),
    Dev(AudioUpperHw, 2) }

\* The host's devices with one more, at position i, and with one less.
plugged(raw, dev, i) ==
    SubSeq(raw, 1, i - 1) \o <<dev>> \o SubSeq(raw, i, Len(raw))
unplugged(raw, i) == SubSeq(raw, 1, i - 1) \o SubSeq(raw, i + 1, Len(raw))

\* A listing: the host's devices change, one at a time (Plug, Unplug), and
\* list_audio_devices is called (ListDevices).
Plug(dev, i) ==
    /\ Len(query_devices) < MaxEnumerated
    /\ \A k \in 1..Len(query_devices) : query_devices[k] # dev
    /\ query_devices' = plugged(query_devices, dev, i)
    /\ inputs' = <<>>
    /\ listed' = FALSE
    /\ UNCHANGED <<pipeline_vars, select_vars, wait_vars, more_vars>>

Unplug(i) ==
    /\ query_devices' = unplugged(query_devices, i)
    /\ inputs' = <<>>
    /\ listed' = FALSE
    /\ UNCHANGED <<pipeline_vars, select_vars, wait_vars, more_vars>>

ListDevices ==
    /\ ~listed
    /\ inputs' = list_audio_devices(query_devices)
    /\ listed' = TRUE
    /\ UNCHANGED <<query_devices, pipeline_vars, select_vars, wait_vars, more_vars>>

ListNext ==
    \/ \E dev \in DevicePool, i \in 1..(Len(query_devices) + 1) : Plug(dev, i)
    \/ \E i \in 1..Len(query_devices) : Unplug(i)
    \/ ListDevices

ListSpec == Init /\ [][ListNext]_vars

(***************************************************************************)
(* The selection of the microphone: the tray's menu, the saved selection   *)
(* and its restoration at startup (main.py, tray.py), while the host's     *)
(* devices come and go.                                                    *)
(***************************************************************************)

\* The devices of the hosts of this part: two microphones and a device
\* that is not listed.
Microphones == {Dev(UsbHeadsetMic, 1), Dev(HdaIntel, 8),
                Dev(HdmiMonitorOutput, 2)}

\* TrayIcon._populate_mic_submenu: the menu is rebuilt from the devices
\* listed now; each item is bound to the index and the name of its device.
PopulateMenu ==
    /\ menu' = list_audio_devices(query_devices)
    /\ menu' # menu
    /\ UNCHANGED <<microphone, mic_device, restored, clicked, catalog_vars,
                   pipeline_vars, wait_vars, more_vars>>

\* TrayIcon._on_device_toggled on item k of the menu, and
\* SuperWhisper._on_device_change(device_index, device_name): the index goes
\* to the recorder, the name to the configuration, which is saved.
DeviceToggled(k) ==
    /\ mic_device' = menu[k].index
    /\ microphone' = menu[k].name
    /\ clicked' = [valid |-> TRUE, index |-> menu[k].index, name |-> menu[k].name]
    /\ restored' = [valid |-> FALSE, raw |-> <<>>]
    /\ UNCHANGED <<menu, catalog_vars, pipeline_vars, wait_vars, more_vars>>

\* A restore that hands over the place of the device in the list it got.
restore_device_by_place(devices, saved) ==
    IF \E k \in 1..Len(devices) : devices[k].name = saved
    THEN (CHOOSE k \in 1..Len(devices) :
              /\ devices[k].name = saved
              /\ \A l \in 1..(k - 1) : devices[l].name # saved) - 1
    ELSE -1

\* _restore_microphone, lines 163-167: the index of the first device of the
\* list whose name is the saved one; set_device is not called (the device
\* stays None) when there is none.
restore_device(devices, saved) ==
    IF \E k \in 1..Len(devices) : devices[k].name = saved
    THEN devices[CHOOSE k \in 1..Len(devices) :
                     /\ devices[k].name = saved
                     /\ \A l \in 1..(k - 1) : devices[l].name # saved].index
    ELSE -1

\* The application is started again: SuperWhisper.__init__ makes a recorder
\* with no device and restores the saved microphone, if one is saved, from
\* the devices listed at that time; the tray is built anew.
Restart ==
    /\ mic_device' = IF microphone # <<>>
                     THEN restore_device(list_audio_devices(query_devices),
                                         microphone)
                     ELSE -1
    /\ restored' = [valid |-> TRUE, raw |-> query_devices]
    /\ menu' = <<>>
    /\ UNCHANGED <<microphone, clicked, catalog_vars, pipeline_vars,
                   wait_vars, more_vars>>

\* The host's devices change without a listing.
Hotplug(dev, i) ==
    /\ Len(query_devices) < MaxEnumerated
    /\ \A k \in 1..Len(query_devices) : query_devices[k] # dev
    /\ query_devices' = plugged(query_devices, dev, i)
    /\ UNCHANGED <<inputs, listed, select_vars, pipeline_vars, wait_vars, more_vars>>

Hotunplug(i) ==
    /\ query_devices' = unplugged(query_devices, i)
    /\ UNCHANGED <<inputs, listed, select_vars, pipeline_vars, wait_vars, more_vars>>

SelectNext ==
    \/ \E dev \in Microphones, i \in 1..(Len(query_devices) + 1) : Hotplug(dev, i)
    \/ \E i \in 1..Len(query_devices) : Hotunplug(i)
    \/ PopulateMenu
    \/ \E k \in 1..Len(menu) : DeviceToggled(k)
    \/ Restart

SelectSpec == Init /\ [][SelectNext]_vars

(***************************************************************************)
(* Waiting for the audio service and for a microphone                     *)
(* audio.py, wait_for_audio_service and wait_for_microphone.  Time is     *)
(* counted in polling intervals of 0.5 s from the call; it passes in the  *)
(* sleeps, the listings and the systemctl queries take none.              *)
(***************************************************************************)

\* check_interval = 0.5, lines 207 and 256: the unit of time.
check_interval == 1

\* wait_for_microphone, line 251: min(timeout, 10.0), 10.0 s in intervals.
ServiceTimeoutCap == 20

\* wait_for_audio_service, lines 201-205: the candidates, in order.
service_names == <<"pipewire.service", "pipewire-pulse.service",
                   "pulseaudio.service">>

\* What a systemctl query of a candidate comes to: "fails" is a query that
\* raises TimeoutExpired, FileNotFoundError or OSError.
ServiceStatus == {"active", "inactive", "fails"}

\* The timeouts, stabilize times and targets of the calls: none, 1 s and
\* 2 s; 1 s; no target and a name.
Timeouts == {0, 2, 4}
StabilizeTimes == {2}
Targets == {<<>>, UsbHeadsetMic}

min(a, b) == IF a <= b THEN a ELSE b

\* wait_for_microphone is called (lines 230-251): it calls
\* wait_for_audio_service(timeout=min(timeout, 10.0)), which takes its
\* start_time (line 206).
WaitForMicrophone(target, t, stabilize) ==
    /\ wait_pc \in {"idle", "returned"}
    /\ now' = 0
    /\ target_name' = target
    /\ timeout' = t
    /\ stabilize_time' = stabilize
    /\ service_timeout' = min(t, ServiceTimeoutCap)
    /\ service_start' = 0
    /\ cand' = 1
    /\ service_ready' = "none"
    /\ start_time' = -1
    /\ last_device_count' = -1
    /\ stable_since' = -1
    /\ wait_devices' = <<>>
    /\ target_seen_at' = -1
    /\ run_count' = -1
    /\ run_since' = -1
    /\ returned_at' = -1
    /\ active_seen_at' = -1
    /\ service_returned_at' = -1
    /\ query_failed' = FALSE
    /\ wait_pc' = "service_test"
    /\ UNCHANGED <<call_vars, catalog_vars, select_vars, pipeline_vars,
                   more_vars>>

\* wait_for_audio_service, line 209 and line 227: the loop test, and
\* return False when the timeout has elapsed.
ServiceTest ==
    /\ wait_pc = "service_test"
    /\ IF now - service_start < service_timeout
       THEN /\ cand' = 1
            /\ wait_pc' = "service_query"
            /\ UNCHANGED <<service_ready, service_returned_at>>
       ELSE /\ service_ready' = "False"
            /\ service_returned_at' = now
            /\ wait_pc' = "mic_start"
            /\ UNCHANGED cand
    /\ UNCHANGED <<now, query_failed, wait_args, service_timeout, service_start,
                   mic_locals, target_seen_at, run_count, run_since,
                   returned_at, active_seen_at, call_vars, catalog_vars,
                   select_vars, pipeline_vars,
                   more_vars>>

\* A query whose failure is not caught.
query_outcome_uncaught(status) ==
    IF status = "active" THEN "ready"
    ELSE IF status = "fails" THEN "raise" ELSE "next"

\* Lines 211-223: return True on "active"; an inactive candidate and a
\* failing query (except ...: continue) both go on to the next candidate.
query_outcome(status) ==
    IF status = "active" THEN "ready" ELSE "next"

\* Lines 210-223: one candidate is queried, and systemctl answers.
ServiceQuery(status) ==
    /\ wait_pc = "service_query"
    /\ active_seen_at' = IF status = "active" /\ active_seen_at = -1
                         THEN now ELSE active_seen_at
    /\ query_failed' = (query_failed \/ status = "fails")
    /\ CASE query_outcome(status) = "ready" ->
                /\ service_ready' = "True"
                /\ service_returned_at' = now
                /\ wait_pc' = "mic_start"
                /\ UNCHANGED cand
         [] query_outcome(status) = "raise" ->
                /\ wait_pc' = "raised"
                /\ UNCHANGED <<cand, service_ready, service_returned_at>>
         [] OTHER ->
                /\ IF cand < Len(service_names)
                   THEN cand' = cand + 1 /\ UNCHANGED wait_pc
                   ELSE wait_pc' = "service_sleep" /\ UNCHANGED cand
                /\ UNCHANGED <<service_ready, service_returned_at>>
    /\ UNCHANGED <<now, wait_args, service_timeout, service_start,
                   mic_locals, target_seen_at, run_count, run_since,
                   returned_at, call_vars, catalog_vars, select_vars,
                   pipeline_vars,
                   more_vars>>

\* Line 225: time.sleep(check_interval).
ServiceSleep ==
    /\ wait_pc = "service_sleep"
    /\ now' = now + check_interval
    /\ wait_pc' = "service_test"
    /\ UNCHANGED <<query_failed, wait_args, service_locals, mic_locals,
                   wait_history, call_vars, catalog_vars, select_vars,
                   pipeline_vars,
                   more_vars>>

\* wait_for_microphone, lines 253-256: start_time is taken when
\* wait_for_audio_service has returned.
MicStart ==
    /\ wait_pc = "mic_start"
    /\ start_time' = now
    /\ last_device_count' = -1
    /\ stable_since' = -1
    /\ wait_pc' = "mic_test"
    /\ UNCHANGED <<now, query_failed, wait_args, service_locals, wait_devices,
                   wait_history, call_vars, catalog_vars, select_vars,
                   pipeline_vars,
                   more_vars>>

\* Line 260: the loop test.
MicTest ==
    /\ wait_pc = "mic_test"
    /\ wait_pc' = IF now - start_time < timeout THEN "mic_list" ELSE "final"
    /\ UNCHANGED <<now, query_failed, wait_args, service_locals, mic_locals,
                   wait_history, call_vars, catalog_vars, select_vars,
                   pipeline_vars,
                   more_vars>>

\* The listing holds a device of that name.
Holds(listing, name) == \E k \in 1..Len(listing) : listing[k].name = name

\* Lines 261-262: devices = list_audio_devices().  The observation notes
\* when a listing first held the target, and since when the listings of the
\* loop have had the count of this one.
MicList ==
    /\ wait_pc = "mic_list"
    /\ wait_devices' = list_audio_devices(query_devices)
    /\ target_seen_at' =
           IF /\ target_seen_at = -1
              /\ target_name # <<>>
              /\ Holds(wait_devices', target_name)
           THEN now ELSE target_seen_at
    /\ IF Len(wait_devices') # run_count
       THEN run_count' = Len(wait_devices') /\ run_since' = now
       ELSE UNCHANGED <<run_count, run_since>>
    /\ wait_pc' = "mic_target"
    /\ UNCHANGED <<now, query_failed, wait_args, service_locals, start_time,
                   last_device_count, stable_since, returned_at,
                   active_seen_at, service_returned_at, call_vars,
                   catalog_vars, select_vars, pipeline_vars,
                   more_vars>>

\* A target check that finds nothing.
target_listed_never(listing, target) == FALSE

\* Lines 265-273: if target_name: a device of the list has that name.
target_listed(listing, target) ==
    target # <<>> /\ \E k \in 1..Len(listing) : listing[k].name = target

\* Lines 265-273: return devices when the target is listed.
MicTarget ==
    /\ wait_pc = "mic_target"
    /\ IF target_listed(wait_devices, target_name)
       THEN returned_at' = now /\ wait_pc' = "returned"
       ELSE wait_pc' = "mic_stable" /\ UNCHANGED returned_at
    /\ UNCHANGED <<now, query_failed, wait_args, service_locals, mic_locals,
                   target_seen_at, run_count, run_since, active_seen_at,
                   service_returned_at, call_vars, catalog_vars, select_vars,
                   pipeline_vars,
                   more_vars>>

\* A stabilized list returned whatever its length.
stable_return_any(current_count) == TRUE

\* Line 284: if current_count > 0: return devices.
stable_return(current_count) == current_count > 0

\* Lines 276-292: a changed count restarts the stabilization; an unchanged
\* one that has lasted stabilize_time returns the devices, when there are
\* any.
MicStable ==
    /\ wait_pc = "mic_stable"
    /\ LET current_count == Len(wait_devices) IN
       IF current_count # last_device_count
       THEN /\ last_device_count' = current_count
            /\ stable_since' = now
            /\ wait_pc' = "mic_sleep"
            /\ UNCHANGED returned_at
       ELSE /\ IF /\ stable_since # -1
                  /\ now - stable_since >= stabilize_time
                  /\ stable_return(current_count)
               THEN returned_at' = now /\ wait_pc' = "returned"
               ELSE wait_pc' = "mic_sleep" /\ UNCHANGED returned_at
            /\ UNCHANGED <<last_device_count, stable_since>>
    /\ UNCHANGED <<now, query_failed, wait_args, service_locals, start_time,
                   wait_devices, target_seen_at, run_count, run_since,
                   active_seen_at, service_returned_at, call_vars,
                   catalog_vars, select_vars, pipeline_vars,
                   more_vars>>

\* Line 294: time.sleep(check_interval).
MicSleep ==
    /\ wait_pc = "mic_sleep"
    /\ now' = now + check_interval
    /\ wait_pc' = "mic_test"
    /\ UNCHANGED <<query_failed, wait_args, service_locals, mic_locals,
                   wait_history, call_vars, catalog_vars, select_vars,
                   pipeline_vars,
                   more_vars>>

\* Lines 296-302: the timeout is reached; the devices are listed once more
\* and returned.
MicTimeout ==
    /\ wait_pc = "final"
    /\ wait_devices' = list_audio_devices(query_devices)
    /\ target_seen_at' =
           IF /\ target_seen_at = -1
              /\ target_name # <<>>
              /\ Holds(wait_devices', target_name)
           THEN now ELSE target_seen_at
    /\ returned_at' = now
    /\ wait_pc' = "returned"
    /\ UNCHANGED <<now, query_failed, wait_args, service_locals, start_time,
                   last_device_count, stable_since, run_count, run_since,
                   active_seen_at, service_returned_at, call_vars,
                   catalog_vars, select_vars, pipeline_vars,
                   more_vars>>

\* The steps of a call of wait_for_microphone.
WaitStep ==
    \/ ServiceTest
    \/ \E status \in ServiceStatus : ServiceQuery(status)
    \/ ServiceSleep
    \/ MicStart
    \/ MicTest
    \/ MicList
    \/ MicTarget
    \/ MicStable
    \/ MicSleep
    \/ MicTimeout

\* Devices come and go while time passes: before a call and in its sleeps.
Asleep == wait_pc \in {"idle", "service_sleep", "mic_sleep", "returned"}

WaitNext ==
    \/ \E target \in Targets : \E t \in Timeouts :
           \E stabilize \in StabilizeTimes :
               WaitForMicrophone(target, t, stabilize)
    \/ WaitStep
    \/ \E dev \in Microphones : \E i \in 1..(Len(query_devices) + 1) :
           Asleep /\ Hotplug(dev, i)
    \/ \E i \in 1..Len(query_devices) : Asleep /\ Hotunplug(i)

WaitSpec == Init /\ [][WaitNext]_vars

(***************************************************************************)
(* listDevicesWithRetry (list_audio_devices_with_retry, imported by        *)
(* main.py from audio.py): the listing is retried with a growing delay.    *)
(* Delays are counted in sixteenths of a second.                           *)
(***************************************************************************)

\* The arguments of the calls: 0.5 s and 1 s for initialDelay, 1.25 s and
\* 2.5 s for maxDelay; the products by 1.5 below the cap are whole.
MaxAttempts == 3
InitialDelays == {8, 16}
MaxDelays == {20, 40}

\* A delay that grows without a cap.
next_delay_uncapped(d, cap) == (d * 3) \div 2

\* The delay is multiplied by 1.5 after each attempt, capped at maxDelay.
next_delay(d, cap) == min((d * 3) \div 2, cap)

\* listDevicesWithRetry(maxAttempts, initialDelay, maxDelay) is called.
ListDevicesWithRetry(n, initial, cap) ==
    /\ retry_pc \in {"idle", "returned"}
    /\ max_attempts' = n
    /\ initial_delay' = initial
    /\ max_delay' = cap
    /\ attempt' = 0
    /\ delay' = initial
    /\ retry_devices' = <<>>
    /\ waits' = <<>>
    /\ found_at' = 0
    /\ retry_pc' = "list"
    /\ UNCHANGED <<beside_retry>>

\* An attempt: listDevices() is called.
RetryList ==
    /\ retry_pc = "list"
    /\ attempt' = attempt + 1
    /\ retry_devices' = list_audio_devices(query_devices)
    /\ found_at' = IF found_at = 0 /\ retry_devices' # <<>>
                   THEN attempt' ELSE found_at
    /\ retry_pc' = "check"
    /\ UNCHANGED <<retry_args, delay, waits, beside_retry>>

\* The list is returned as soon as it holds a device, and the empty list
\* when the attempts are exhausted; else the next attempt is waited for.
RetryCheck ==
    /\ retry_pc = "check"
    /\ retry_pc' = IF retry_devices # <<>> \/ attempt >= max_attempts
                   THEN "returned" ELSE "sleep"
    /\ UNCHANGED <<retry_args, attempt, delay, retry_devices, waits, found_at,
                   beside_retry>>

\* The wait between two attempts, and the growth of the delay.
RetrySleep ==
    /\ retry_pc = "sleep"
    /\ waits' = Append(waits, delay)
    /\ delay' = next_delay(delay, max_delay)
    /\ retry_pc' = "list"
    /\ UNCHANGED <<retry_args, attempt, retry_devices, found_at,
                   beside_retry>>

\* Devices come and go before a call and during its waits.
RetryAsleep == retry_pc \in {"idle", "sleep", "returned"}

RetryNext ==
    \/ \E n \in 1..MaxAttempts : \E initial \in InitialDelays :
           \E cap \in MaxDelays : ListDevicesWithRetry(n, initial, cap)
    \/ RetryList
    \/ RetryCheck
    \/ RetrySleep
    \/ \E dev \in Microphones : \E i \in 1..(Len(query_devices) + 1) :
           RetryAsleep /\ Hotplug(dev, i)
    \/ \E i \in 1..Len(query_devices) : RetryAsleep /\ Hotunplug(i)

RetrySpec == Init /\ [][RetryNext]_vars

(***************************************************************************)
(* The startup of the application: main() called without a subcommand      *)
(* (main.py, deps.py).                                                     *)
(***************************************************************************)

\* deps.check_all, lines 20-23: the commands looked up, in the dict's order.
commands == <<"wl-copy", "wtype">>

\* What the application creates, in order: SuperWhisper.__init__ (lines
\* 135-150), then run() (lines 288-312).
components == <<"config", "recorder", "transcriber", "notifications",
                "queue", "worker", "model", "hotkey_listener", "tray">>

\* What the import of Gtk and AppIndicator3 can raise: nothing, an error
\* whose text names AppIndicator3, one that names Gtk, or another one.
GiErrors == {"none", "AppIndicator3", "Gtk", "other"}

RECURSIVE missing_from(_, _, _)
\* Lines 24-30: the commands from the k-th on that shutil.which does not find.
missing_from(cmds, path, k) ==
    IF k > Len(cmds) THEN <<>>
    ELSE IF cmds[k] \in path THEN missing_from(cmds, path, k + 1)
    ELSE <<cmds[k]>> \o missing_from(cmds, path, k + 1)

\* A check that looks up the clipboard command only.
missing_commands_clipboard_only(path) == missing_from(<<"wl-copy">>, path, 1)

\* deps.check_all, lines 20-30.
missing_commands(path) == missing_from(commands, path, 1)

\* deps.check_all, lines 15-64: the names of the missing dependencies.
check_all(path, gi, notify) ==
    missing_commands(path)
    \o (IF gi = "AppIndicator3" THEN <<"AppIndicator3">>
        ELSE IF gi = "Gtk" THEN <<"GTK3">> ELSE <<>>)
    \o (IF notify THEN <<>> ELSE <<"libnotify">>)

\* main() is called on a host: lines 80-115, no subcommand given.
Launch(path, gi, notify) ==
    /\ startup_pc \in {"off", "exited", "running"}
    /\ on_path' = path
    /\ gi_error' = gi
    /\ notify_ok' = notify
    /\ missing' = <<>>
    /\ printed' = <<>>
    /\ exit_status' = -1
    /\ created' = <<>>
    /\ startup_pc' = "check"
    /\ UNCHANGED <<beside_startup>>

\* Line 118: missing = check_all().
CheckAll ==
    /\ startup_pc = "check"
    /\ missing' = check_all(on_path, gi_error, notify_ok)
    /\ startup_pc' = "checked"
    /\ UNCHANGED <<on_path, gi_error, notify_ok, printed, exit_status, created,
                   beside_startup>>

\* Lines 119-120: print_missing(missing).
PrintMissing ==
    /\ startup_pc = "checked"
    /\ missing # <<>>
    /\ printed' = missing
    /\ startup_pc' = "printed"
    /\ UNCHANGED <<on_path, gi_error, notify_ok, missing, exit_status, created,
                   beside_startup>>

\* Line 121: sys.exit(1).
Exit ==
    /\ startup_pc = "printed"
    /\ exit_status' = 1
    /\ startup_pc' = "exited"
    /\ UNCHANGED <<on_path, gi_error, notify_ok, missing, printed, created,
                   beside_startup>>

\* Lines 123-317: nothing is missing; SuperWhisper() and run() create the
\* parts one after the other, and tray.run() is entered.
Create ==
    /\ startup_pc \in {"checked", "init"}
    /\ missing = <<>>
    /\ created' = Append(created, components[Len(created) + 1])
    /\ startup_pc' = IF Len(created') = Len(components)
                     THEN "running" ELSE "init"
    /\ UNCHANGED <<on_path, gi_error, notify_ok, missing, printed, exit_status,
                   beside_startup>>

StartupNext ==
    \/ \E path \in SUBSET {"wl-copy", "wtype"} : \E gi \in GiErrors :
           \E notify \in BOOLEAN : Launch(path, gi, notify)
    \/ CheckAll
    \/ PrintMissing
    \/ Exit
    \/ Create

StartupSpec == Init /\ [][StartupNext]_vars

(***************************************************************************)
(* resample() and the end of stop(), applied to buffers (audio.py).  A     *)
(* sample is the fraction <<p, q>>, p / q in lowest terms; the samples of  *)
(* a captured buffer are whole.  The interpolated values are exact: their  *)
(* rounding to float32 is not modelled.                                    *)
(***************************************************************************)

\* The buffers resample is applied to: every buffer of up to MaxLen samples,
\* and a ramp of nine samples; the rates; the lengths of the sessions stop()
\* finalizes (96000 is 2 s at 48000 Hz).
MaxLen == 2
Samples == {<<0 - 1, 1>>, <<0, 1>>, <<1, 1>>}
Ramp == [i \in 1..9 |-> <<i, 1>>]
Audio == UNION {[1..k -> Samples] : k \in 0..MaxLen} \cup {Ramp}
Rates == {8000, TARGET_SAMPLE_RATE, 44100, 48000}
SessionLengths == {1, 2, 480, 3003, 44100, 96000}

RECURSIVE gcd(_, _)
gcd(a, b) == IF b = 0 THEN a ELSE gcd(b, a % b)

\* p / q in lowest terms, for q > 0.
fraction(p, q) ==
    LET g == gcd(IF p < 0 THEN 0 - p ELSE p, q) IN <<p \div g, q \div g>>

\* Lines 22-24: the j-th of n_new samples, np.interp of the buffer at
\* np.linspace(0, duration, n_new)[j - 1] over np.linspace(0, duration,
\* len(audio)): the place is (j - 1) * (len(audio) - 1) / (n_new - 1) in
\* samples of the buffer, between two of them or on one.
interp_at(buffer, n_new, j) ==
    IF Len(buffer) = 1 \/ n_new = 1 THEN buffer[1]
    ELSE LET place == (j - 1) * (Len(buffer) - 1)
             i == place \div (n_new - 1) + 1
             part == place % (n_new - 1)
         IN  IF part = 0 THEN buffer[i]
             ELSE fraction(buffer[i][1] * (n_new - 1)
                               + (buffer[i + 1][1] - buffer[i][1]) * part,
                           n_new - 1)

\* Lines 19-24: np.interp raises ValueError on a buffer of no sample.
interpolated(buffer, orig_sr, target_sr) ==
    IF buffer = <<>> THEN [raised |-> TRUE, samples |-> <<>>]
    ELSE LET n_new == target_length(Len(buffer), orig_sr, target_sr)
         IN  [raised |-> FALSE,
              samples |-> [j \in 1..n_new |-> interp_at(buffer, n_new, j)]]

\* A resample without the test of the rates.
resample_interpolated(buffer, orig_sr, target_sr) ==
    interpolated(buffer, orig_sr, target_sr)

\* resample, lines 14-24.
resample(buffer, orig_sr, target_sr) ==
    IF orig_sr = target_sr THEN [raised |-> FALSE, samples |-> buffer]
    ELSE interpolated(buffer, orig_sr, target_sr)

\* resample(x, r1, r2) is called.
Resample(x, r1, r2) ==
    /\ resample_pc = "idle"
    /\ samples_in' = x
    /\ from_rate' = r1
    /\ to_rate' = r2
    /\ resampled' = resample(x, r1, r2)
    /\ resample_pc' = "resample"
    /\ UNCHANGED <<captured, native_rate, finalized, beside_resample>>

\* stop(), lines 102-116, of a session that captured n samples at the rate
\* r: the chunks are concatenated and the buffer is resampled.
StopSession(n, r) ==
    /\ resample_pc = "idle"
    /\ captured' = n
    /\ native_rate' = r
    /\ finalized' = finalize([raised |-> FALSE, len |-> n], r)
    /\ resample_pc' = "stop"
    /\ UNCHANGED <<samples_in, from_rate, to_rate, resampled, beside_resample>>

\* The call has returned and its buffers are dropped.
ResampleReturn ==
    /\ resample_pc # "idle"
    /\ resample_pc' = "idle"
    /\ samples_in' = <<>>
    /\ from_rate' = 0
    /\ to_rate' = 0
    /\ resampled' = [raised |-> FALSE, samples |-> <<>>]
    /\ captured' = 0
    /\ native_rate' = 0
    /\ finalized' = NoAudio
    /\ UNCHANGED beside_resample

ResampleNext ==
    \/ \E x \in Audio : \E r1 \in Rates : \E r2 \in Rates : Resample(x, r1, r2)
    \/ \E n \in SessionLengths : \E r \in Rates : StopSession(n, r)
    \/ ResampleReturn

ResampleSpec == Init /\ [][ResampleNext]_vars

(***************************************************************************)
(* Transcriber.load_model (transcribe.py), as run() calls it before the    *)
(* hotkey listener is started and as every transcribe() of the worker      *)
(* calls it afterwards.                                                    *)
(***************************************************************************)

\* The settings of config.device and config.compute_type.
RequestedDevices == {"auto", "cuda", "cpu"}
RequestedComputeTypes == {"auto", "int8", "float16"}

\* A load_model without the test of line 67.
model_held_never == FALSE

\* load_model, line 67: self._model is not None
model_held == engine_model # NoModel

\* load_model, lines 71-74: the device.
device_for(requested, cuda) ==
    IF requested = "auto" THEN (IF cuda THEN "cuda" ELSE "cpu") ELSE requested

\* load_model, lines 77-80: the compute type.
compute_type_for(requested, dev) ==
    IF requested = "auto" THEN (IF dev = "cuda" THEN "float16" ELSE "int8")
    ELSE requested

\* Where an exception of load_model goes: run() handles none and the
\* process ends; the worker loop catches what transcribe() lets through.
raise_to(c) == IF c = "run" THEN "exited" ELSE "ready"

\* One WhisperModel(...) call of load_model, as recorded.
construction(dev, ct, outcome) ==
    [call |-> load_calls, device |-> dev, compute_type |-> ct,
     outcome |-> outcome]

\* SuperWhisper.__init__ creates the Transcriber from the configuration, and
\* run() calls load_model before anything can be recorded.
Run(dev, ct, cuda) ==
    /\ load_pc = "off"
    /\ requested_device' = dev
    /\ requested_compute_type' = ct
    /\ cuda_available' = cuda
    /\ caller' = "run"
    /\ load_calls' = 1
    /\ load_pc' = "call"
    /\ UNCHANGED <<engine_model, actual_device, load_device, compute_type,
                   constructed, load_raised, beside_engine>>

\* Transcriber.transcribe, line 118, for a buffer the worker took.
TranscribeCall ==
    /\ load_pc = "ready"
    /\ load_calls < MaxCalls
    /\ caller' = "transcribe"
    /\ load_calls' = load_calls + 1
    /\ load_raised' = "none"
    /\ load_pc' = "call"
    /\ UNCHANGED <<requested_device, requested_compute_type, cuda_available,
                   engine_model, actual_device, load_device, compute_type,
                   constructed, beside_engine>>

\* load_model, lines 67-80: return at once when a model is held, else the
\* device and the compute type are determined.
LoadModel ==
    /\ load_pc = "call"
    /\ IF model_held
       THEN /\ load_pc' = "ready"
            /\ caller' = "none"
            /\ UNCHANGED <<load_device, compute_type>>
       ELSE /\ load_device' = device_for(requested_device, cuda_available)
            /\ compute_type' =
                   compute_type_for(requested_compute_type,
                                    device_for(requested_device, cuda_available))
            /\ load_pc' = "download"
            /\ UNCHANGED caller
    /\ UNCHANGED <<requested_device, requested_compute_type, cuda_available,
                   engine_model, actual_device, constructed, load_calls,
                   load_raised, beside_engine>>

\* load_model, line 83: ensure_model_downloaded, outside the try.
Download(outcome) ==
    /\ load_pc = "download"
    /\ IF outcome = "ok"
       THEN /\ load_pc' = "load"
            /\ UNCHANGED <<caller, load_raised>>
       ELSE /\ load_raised' = "download"
            /\ load_pc' = raise_to(caller)
            /\ caller' = "none"
    /\ UNCHANGED <<requested_device, requested_compute_type, cuda_available,
                   engine_model, actual_device, load_device, compute_type,
                   constructed, load_calls, beside_engine>>

\* load_model, lines 90-100 and 111-112: WhisperModel on the device
\* determined; its failure is re-raised unless the device is "cuda".
Load(outcome) ==
    /\ load_pc = "load"
    /\ constructed' =
           Append(constructed, construction(load_device, compute_type, outcome))
    /\ IF outcome = "ok"
       THEN /\ engine_model' =
                   [device |-> load_device, compute_type |-> compute_type]
            /\ actual_device' = load_device
            /\ load_pc' = "ready"
            /\ caller' = "none"
            /\ UNCHANGED load_raised
       ELSE IF load_device = "cuda"
       THEN /\ load_pc' = "fallback"
            /\ UNCHANGED <<engine_model, actual_device, caller, load_raised>>
       ELSE /\ load_raised' = "load"
            /\ load_pc' = raise_to(caller)
            /\ caller' = "none"
            /\ UNCHANGED <<engine_model, actual_device>>
    /\ UNCHANGED <<requested_device, requested_compute_type, cuda_available,
                   load_device, compute_type, load_calls, beside_engine>>

\* load_model, lines 101-110: WhisperModel on "cpu" with "int8".
Fallback(outcome) ==
    /\ load_pc = "fallback"
    /\ constructed' = Append(constructed, construction("cpu", "int8", outcome))
    /\ IF outcome = "ok"
       THEN /\ engine_model' = [device |-> "cpu", compute_type |-> "int8"]
            /\ actual_device' = "cpu"
            /\ load_pc' = "ready"
            /\ UNCHANGED load_raised
       ELSE /\ load_raised' = "fallback"
            /\ load_pc' = raise_to(caller)
            /\ UNCHANGED <<engine_model, actual_device>>
    /\ caller' = "none"
    /\ UNCHANGED <<requested_device, requested_compute_type, cuda_available,
                   load_device, compute_type, load_calls, beside_engine>>

EngineNext ==
    \/ \E dev \in RequestedDevices, ct \in RequestedComputeTypes,
          cuda \in BOOLEAN : Run(dev, ct, cuda)
    \/ TranscribeCall
    \/ LoadModel
    \/ \E outcome \in {"ok", "raises"} : Download(outcome)
    \/ \E outcome \in {"ok", "raises"} : Load(outcome)
    \/ \E outcome \in {"ok", "raises"} : Fallback(outcome)

EngineSpec == Init /\ [][EngineNext]_vars

(***************************************************************************)
(* Properties                                                              *)
(***************************************************************************)

\* The most recently pushed buffer of a non-empty set of buffers.
Newest(S) == CHOOSE x \in S : \A y \in S : y <= x

\* A buffer delivered: copied to the clipboard, or notified done or no-speech.
Delivered(b) ==
    \/ b \in clipboard
    \/ <<b, "done">> \in notifications
    \/ <<b, "no_speech">> \in notifications

\* The worker is through with the job of buffer b.
JobOver(b) == engine_calls[b] > 0 /\ (waudio.id # b \/ wpc = "get")

\* C1 (drain-to-latest): a buffer that was dequeued, or held by the worker,
\* while a later buffer was queued is never passed to the engine; the buffer
\* the engine is called with is newer than all of those, and it is the most
\* recently pushed buffer unless a push arrived after the drain loop's last
\* emptiness check.
C1_DrainToLatest ==
    /\ \A b \in superseded : engine_calls[b] = 0
    /\ wpc = "engine" =>
          /\ \A b \in superseded : b < waudio.id
          /\ (\A j \in Buffers : <<waudio.id, j>> \notin pushed_during)
                => waudio.id = Newest(pushed)

\* B1, B2, B3 were all queued before the worker dequeued: only B3 is in the
\* engine.
C1_Witness ==
    /\ wpc = "engine"
    /\ waudio.id = 3
    /\ superseded = {1, 2}
    /\ engine_calls[1] = 0 /\ engine_calls[2] = 0 /\ engine_calls[3] = 1

\* The outcome of buffer b was reported by the worker.
Reported(b) ==
    \E kind \in {"done", "no_speech", "error"} : <<b, kind>> \in notifications

\* The most recently pushed buffer arrived during the engine call of another
\* buffer and the worker is not through with it yet.
StaleWaiting ==
    \E b, j \in Buffers :
        /\ <<b, j>> \in pushed_during
        /\ j = Newest(pushed)
        /\ ~(engine_calls[j] = 1 /\ Reported(j))

\* C2 (stale-result suppression): a buffer during whose engine call another
\* buffer was pushed is never delivered (no clipboard copy, no done and no
\* no-speech notification); and the buffer pushed meanwhile is then passed
\* to the engine and its outcome reported, unless a still newer buffer is
\* pushed.
C2_StaleResultSuppressed ==
    /\ [](\A b, j \in Buffers : <<b, j>> \in pushed_during => ~Delivered(b))
    /\ StaleWaiting ~> ~StaleWaiting

\* B2 was pushed during the engine call of B1, B1 was dropped, and B2 was
\* transcribed and delivered.
C2_Witness ==
    /\ <<1, 2>> \in pushed_during
    /\ engine_calls[1] = 1
    /\ ~Delivered(1)
    /\ 2 \in clipboard
    /\ <<2, "done">> \in notifications
    /\ wpc = "get"

\* C3 (worker errors are reported): every job during which something raised
\* (the engine call or the delivery) has been reported through notify_error
\* once the worker is through with it.
C3_WorkerErrorsReported ==
    \A b \in Buffers :
        (raised[b] # "none" /\ JobOver(b)) => <<b, "error">> \in notifications

\* C4 (empty-audio short-circuit): a session whose stop() gave a zero-length
\* buffer is never put on the queue and never passed to the engine, and once
\* _stop_recording has returned "No audio recorded" has been reported.
C4_EmptyAudioShortCircuit ==
    \A s \in zero_length :
        /\ s \notin pushed
        /\ s \notin Ids(audio_queue)
        /\ engine_calls[s] = 0
        /\ (hpc # "stopped" \/ s < nsessions)
              => <<s, "No audio recorded">> \in handler_errors

\* A recording that started normally and captured no chunk was stopped and
\* reported.
C4_Witness ==
    /\ nsessions = 1
    /\ last_start = "ok"
    /\ hpc = "idle"
    /\ zero_length = {1}
    /\ handler_errors = {<<1, "No audio recorded">>}
    /\ pushed = {}

\* C5 (one engine call at a time): at most one engine call is in progress,
\* it is the worker's, and no buffer is passed to the engine twice.
C5_SingleEngineCall ==
    /\ engine_busy = IF wpc = "engine" THEN 1 ELSE 0
    /\ \A b \in Buffers : engine_calls[b] <= 1

\* Two buffers are pushed while the worker is in an engine call.
C5_Witness ==
    /\ wpc = "engine"
    /\ engine_busy = 1
    /\ Len(audio_queue) = 2

\* C6 (the put never waits): wherever the worker is and however many
\* buffers are queued, the handler that has reached the put can take it.
C6_PutNeverBlocks == hpc = "put" => ENABLED QueuePut

\* The handler is at the put while the worker is in an engine call and a
\* buffer is already queued.
C6_Witness ==
    /\ hpc = "put"
    /\ wpc = "engine"
    /\ Len(audio_queue) = 1

\* C7 (silence is not failure): "no speech" is notified only for a job whose
\* engine call did not raise, and a job whose engine call raised and whose
\* outcome was reported was reported through notify_error.
C7_SilenceIsNotFailure ==
    \A b \in Buffers :
        /\ <<b, "no_speech">> \in notifications => raised[b] # "engine"
        /\ (raised[b] = "engine" /\ Reported(b)) => <<b, "error">> \in notifications

\* C8 (a failed start is handled): after a start-recording whose stream
\* failed to open or to start, the failure has been reported and the
\* recorder is Idle, holding no stream.
C8_StartFailureHandled ==
    (/\ hpc = "idle"
     /\ ops # <<>>
     /\ ops[Len(ops)] = "start"
     /\ last_start # "ok")
        => /\ ~is_recording
           /\ stream = 0
           /\ \E kind \in {"No audio recorded", "start failed"} :
                 <<nsessions, kind>> \in handler_errors

\* C9 (Idle and Recording alternate): the operations the toggle events
\* perform are start, stop, start, ... in turn, and between two toggle
\* events the recorder is Recording exactly after a start.
C9_StartStopAlternate ==
    /\ \A i \in 1..Len(ops) : ops[i] = IF i % 2 = 1 THEN "start" ELSE "stop"
    /\ hpc = "idle" => (is_recording <=> Len(ops) % 2 = 1)

\* Four toggle events were handled, the second start having failed to open
\* its stream.
C9_Witness ==
    /\ Len(ops) = 4
    /\ last_start = "open_failed"
    /\ hpc = "idle"
    /\ ~is_recording

\* C10 (stop() is safe in Idle): a stop() called while the recorder is Idle
\* raises nothing, returns a zero-length buffer and leaves the recorder Idle.
C10_StopSafeInIdle ==
    stop_idle => (audio = NoAudio /\ ~recording /\ stream = 0)

\* stop() was called in Idle after an earlier start() and stop().
C10_Witness ==
    /\ stop_idle
    /\ nsessions > 0
    /\ audio = NoAudio

\* stop() has returned and _stop_recording has not returned yet.
StopReturned == hpc \in {"stopped", "put"}

\* The chunks of a sequence that are not late, in their order.
InTime(chunks) == SelectSeq(chunks, LAMBDA c : c \notin late)

\* C11 (the finalized buffer is the session's chunks): what stop()
\* concatenated is exactly the chunks the stream delivered before stop()
\* cleared the running flag, in delivery order; no chunk of the session
\* buffer is of an earlier session; a callback that ran after the flag was
\* cleared appended nothing; and once stop() has returned the session buffer
\* is empty, and stays so while the recorder is Idle.
C11_FinalizedBufferIsSession ==
    /\ StopReturned => flat = InTime(delivered)
    /\ \A i \in 1..Len(audio_data) :
          audio_data[i][1] = nsessions /\ audio_data[i] \notin late
    /\ \A i \in 1..Len(flat) : flat[i][1] = nsessions
    /\ (StopReturned \/ (hpc = "idle" /\ ~recording)) => audio_data = <<>>

\* The second session, the first having recorded audio: one chunk arrived
\* in time, the callback of the second ran when the flag was cleared.
C11_Witness ==
    /\ hpc = "stopped"
    /\ nsessions = 2
    /\ 1 \in pushed
    /\ delivered = << <<2, 1>>, <<2, 2>> >>
    /\ late = {<<2, 2>>}
    /\ flat = << <<2, 1>> >>

\* C12 (the session state is framed): while the recorder is Recording the
\* device sample rate stays the rate at which start() opened the stream,
\* whatever set_device calls are made meanwhile, and the rate stop() resamples
\* from is that rate.
C12_SessionStateFramed ==
    /\ (recording /\ stream_rate # 0) => device_sample_rate = stream_rate
    /\ (StopReturned /\ stream_rate # 0) => resample_rate = stream_rate

\* C13 as stated: no thread holds the recorder's lock while an engine call
\* is in progress.
C13_LockFreeDuringEngineCall == engine_busy > 0 => lock = "none"

\* C13 as amended: the lock is never held across an engine call.  The
\* worker, whose engine call it is, holds no lock; whoever holds the lock
\* can release it wherever the worker is; and a callback that waits for the
\* lock gets it, however long the engine call in progress lasts.
C13_LockNotHeldAcrossEngineCall ==
    /\ [](lock \in {"none", "main", "callback"})
    /\ [](lock # "none" => ENABLED Release)
    /\ (cpc = "acquire") ~> (cpc = "locked")

\* The callback holds the lock, appending a chunk of the second recording,
\* while the worker is in the engine call of the first.
C13_Witness ==
    /\ wpc = "engine"
    /\ waudio.id = 1
    /\ lock = "callback"
    /\ recording
    /\ nsessions = 2

\* C14 (a failed rate query is never raised): set_device returns normally
\* for every device and every outcome of the query, with the device
\* recorded, and with the rate at the 16000 Hz target when the device is
\* None or the query failed; and a start() whose stream opened and started
\* returns normally, recording, whether its own query failed or not.
C14_QueryFailureNeverRaised ==
    /\ last_call.op = "set_device" =>
          /\ ~last_call.raised
          /\ device = last_call.d
          /\ (last_call.d = 0 \/ last_call.query = "fails")
                => device_sample_rate = TARGET_SAMPLE_RATE
    /\ (last_call.op = "start" /\ last_call.open = "ok") =>
          /\ ~last_call.raised
          /\ recording
          /\ stream_active

\* set_device(1) with a failing query left the rate at the target; the
\* start() that followed queried again, failed again, and recorded.
C14_Witness ==
    /\ last_call = Call("start", 1, "fails", "ok", FALSE)
    /\ device = 1
    /\ device_sample_rate = TARGET_SAMPLE_RATE
    /\ recording

\* The device at position i of the host's enumeration is in the last listing.
Listed(i) ==
    \E k \in 1..Len(inputs) :
        inputs[k].index = i - 1 /\ inputs[k].name = query_devices[i].name

\* A device that the rules of the filter admit.
Eligible(dev) ==
    /\ dev.max_input_channels \in 1..8
    /\ \A k \in 1..Len(virtual_devices) : lower(dev.name) # virtual_devices[k]
    /\ ~any_in(mic_negative, lower(dev.name))
    /\ contains(dev.name, hw_mark) \/ any_in(mic_positive, lower(dev.name))

\* C16 (the device filter): list_audio_devices returns a device, once, if
\* and only if it has 1 to 8 input channels, its lower-cased name is no
\* virtual alias, its name has no output/monitor keyword, and its name has
\* "(hw:" or a microphone keyword.  So "HDMI Monitor Output (hw:2,3)" is not
\* listed, "USB Headset Mic" is, and no device of 10 channels is.
C16_DeviceFilter ==
    listed =>
        /\ \A i \in 1..Len(query_devices) :
              /\ Listed(i) <=> Eligible(query_devices[i])
              /\ query_devices[i].name = HdmiMonitorOutput => ~Listed(i)
              /\ (/\ query_devices[i].name = UsbHeadsetMic
                  /\ query_devices[i].max_input_channels \in 1..8) => Listed(i)
              /\ query_devices[i].max_input_channels = 10 => ~Listed(i)
        /\ \A k \in 1..Len(inputs) : Listed(inputs[k].index + 1)
        /\ \A k, l \in 1..Len(inputs) :
              inputs[k].index = inputs[l].index => k = l

\* The HDMI monitor and the headset are enumerated: the headset alone is
\* listed, with its index.
C16_Witness ==
    /\ listed
    /\ query_devices = <<Dev(HdmiMonitorOutput, 2), Dev(UsbHeadsetMic, 1)>>
    /\ inputs = <<[index |-> 1, name |-> UsbHeadsetMic, channels |-> 1,
                   sample_rate |-> 48000]>>

\* The saved microphone is among the devices that are listed now.
SavedIsListed ==
    /\ microphone # <<>>
    /\ \E i \in 1..Len(query_devices) :
          Eligible(query_devices[i]) /\ query_devices[i].name = microphone

\* C15 (the identity of a device is its name): what a device change saves
\* is the name of the menu item; and the restore, the host's devices being
\* what it saw, has given the recorder the index that the device of the
\* saved name has now, whatever index it had when it was chosen, and no
\* device when none of that name is listed.
C15_IdentityIsTheName ==
    /\ clicked.valid => microphone = clicked.name
    /\ (restored.valid /\ restored.raw = query_devices) =>
          IF SavedIsListed
          THEN /\ mic_device \in 0..(Len(query_devices) - 1)
               /\ query_devices[mic_device + 1].name = microphone
          ELSE mic_device = -1

\* The headset was chosen when it had index 0; it is now enumerated behind
\* another microphone, and the restore gave the recorder index 1.
C15_Witness ==
    /\ clicked = [valid |-> TRUE, index |-> 0, name |-> UsbHeadsetMic]
    /\ microphone = UsbHeadsetMic
    /\ query_devices = <<Dev(HdaIntel, 8), Dev(UsbHeadsetMic, 1)>>
    /\ restored = [valid |-> TRUE, raw |-> query_devices]
    /\ mic_device = 1

\* wait_for_microphone has returned.
Returned == wait_pc = "returned"

\* C17: a call with a target name returns at the first listing that holds a
\* device of that name, and returns that listing: once a listing has held
\* the target the call is at the check of that listing or has returned, at
\* the time of that listing and with a list that holds the target, however
\* short the time the count has been stable and however far the timeout.
C17_ReturnsAtFirstListingOfTarget ==
    target_seen_at # -1 =>
        /\ wait_pc \in {"mic_target", "returned"}
        /\ Returned =>
               /\ returned_at = target_seen_at
               /\ Holds(wait_devices, target_name)

\* The target came up after the first listing, and the call returned at
\* once, before the timeout and before the count had been stable for
\* stabilize_time.
C17_Witness ==
    /\ Returned
    /\ target_seen_at > start_time
    /\ returned_at - start_time < timeout
    /\ returned_at - run_since < stabilize_time

\* The listings of the loop have had the same count for stabilize_time.
CountStable == run_since # -1 /\ now - run_since >= stabilize_time

\* The call is in its polling loop.
Polling == wait_pc \in {"mic_list", "mic_target", "mic_stable", "mic_sleep"}

C19_ReturnsWithinTimeout ==
    (Returned /\ target_name # <<>> /\ target_seen_at = -1) =>
        returned_at <= timeout + check_interval

\* C20: wait_for_audio_service returns True at the first query that finds a
\* candidate active, and only then; the candidates are queried in their
\* order; it returns False when its timeout has elapsed, within one polling
\* interval, with no candidate seen active, and does not query past the
\* timeout; a query that fails is skipped and nothing is raised.
C20_ServiceWaitReturns ==
    /\ wait_pc # "raised"
    /\ active_seen_at # -1 =>
           service_ready = "True" /\ service_returned_at = active_seen_at
    /\ service_ready = "True" => active_seen_at # -1
    /\ service_ready = "False" =>
           /\ service_returned_at - service_start >= service_timeout
           /\ service_returned_at - service_start
                  < service_timeout + check_interval
    /\ wait_pc = "service_query" =>
           /\ cand \in 1..Len(service_names)
           /\ now - service_start < service_timeout

\* After a poll with no candidate active and a query that failed, the third
\* candidate, pulseaudio.service, was found active and True was returned.
C20_Witness ==
    /\ wait_pc = "mic_start"
    /\ service_ready = "True"
    /\ query_failed
    /\ service_names[cand] = "pulseaudio.service"
    /\ service_returned_at > service_start

\* C21: listDevicesWithRetry calls listDevices at most maxAttempts times;
\* it returns the list of the first attempt that finds a device, at that
\* attempt; the delays waited between the attempts start at initialDelay,
\* each is the one before multiplied by 1.5 and capped at maxDelay, so none
\* exceeds maxDelay; without a device found it returns the empty list, after
\* maxAttempts attempts.
C21_RetryWithBackoff ==
    /\ attempt <= max_attempts
    /\ found_at # 0 =>
           /\ retry_pc \in {"check", "returned"}
           /\ attempt = found_at
           /\ retry_devices # <<>>
    /\ \A k \in 1..Len(waits) :
           /\ waits[k] <= max_delay
           /\ waits[k] = IF k = 1 THEN initial_delay
                         ELSE min((waits[k - 1] * 3) \div 2, max_delay)
    /\ retry_pc \in {"list", "check", "returned"} =>
           Len(waits) = (IF retry_pc = "list" THEN attempt ELSE attempt - 1)
    /\ (retry_pc = "returned" /\ found_at = 0) =>
           retry_devices = <<>> /\ attempt = max_attempts

\* A device was found at the third attempt, after waits of 1 s and of
\* 1.25 s, the second being the cap and not 1.5 s.
C21_Witness ==
    /\ retry_pc = "returned"
    /\ found_at = 3
    /\ waits = <<16, 20>>
    /\ max_delay = 20

\* The delivery commands, wl-copy and wtype, that the host lacks.
LackingDelivery == {"wl-copy", "wtype"} \ on_path

\* C22: when wl-copy or wtype is missing on the host main() was started on,
\* nothing of the application is ever created (no recorder, queue, worker
\* thread or hotkey listener): main() goes from the check to the printing of
\* the missing dependencies, which names each missing command, and exits
\* with a nonzero status.
C22_FatalStartup ==
    (startup_pc # "off" /\ LackingDelivery # {}) =>
        /\ created = <<>>
        /\ startup_pc \in {"check", "checked", "printed", "exited"}
        /\ startup_pc \in {"printed", "exited"} =>
               \A cmd \in LackingDelivery :
                   \E k \in 1..Len(printed) : printed[k] = cmd
        /\ startup_pc = "exited" => exit_status > 0

\* A host that lacks wtype only: the process has exited with status 1.
C22_Witness ==
    /\ startup_pc = "exited"
    /\ on_path = {"wl-copy"}
    /\ gi_error = "none"
    /\ notify_ok
    /\ printed = <<"wtype">>
    /\ exit_status = 1

\* floor(n * r2 / r1), in whole numbers.
exact_length(n, r1, r2) == (n * r2) \div r1

\* C23: resample(x, r1, r2) returns floor(len(x) * r2 / r1) samples, and
\* stop() of a session of N samples at the rate r returns N samples when r
\* is 16000 and floor(N * 16000 / r) samples otherwise.
C23_LengthIsExactFloor ==
    /\ (resample_pc = "resample" /\ ~resampled.raised) =>
           Len(resampled.samples)
               = exact_length(Len(samples_in), from_rate, to_rate)
    /\ resample_pc = "stop" =>
           finalized.len = IF native_rate = TARGET_SAMPLE_RATE THEN captured
                           ELSE exact_length(captured, native_rate,
                                             TARGET_SAMPLE_RATE)

\* n samples are floor(n0 * r2 / r1), or one fewer when that quotient is
\* whole.
NearFloor(n, n0, r1, r2) ==
    \/ n = exact_length(n0, r1, r2)
    \/ n = exact_length(n0, r1, r2) - 1 /\ (n0 * r2) % r1 = 0

\* C23, with the rounding of the double-precision quotient: resample returns
\* floor(len(x) * r2 / r1) samples, or one fewer when len(x) * r2 / r1 is
\* whole, and len(x) samples for equal rates; stop() returns N samples at
\* 16000 Hz, and floor(N * 16000 / r) or, in that case, one fewer otherwise;
\* 2 seconds captured at 48000 Hz give 32000 samples.
C23_LengthWithinRounding ==
    /\ (resample_pc = "resample" /\ ~resampled.raised) =>
           /\ NearFloor(Len(resampled.samples), Len(samples_in), from_rate,
                        to_rate)
           /\ from_rate = to_rate =>
                  Len(resampled.samples) = Len(samples_in)
    /\ resample_pc = "stop" =>
           /\ NearFloor(finalized.len, captured, native_rate,
                        TARGET_SAMPLE_RATE)
           /\ native_rate = TARGET_SAMPLE_RATE => finalized.len = captured
           /\ (captured = 96000 /\ native_rate = 48000) =>
                  finalized.len = 32000

\* stop() has finalized 2 seconds captured at 48000 Hz.
C23_Witness ==
    /\ resample_pc = "stop"
    /\ captured = 96000
    /\ native_rate = 48000
    /\ finalized = [raised |-> FALSE, len |-> 32000]

\* C24: resample(x, r, r) returns x, with the same length and the same
\* samples, for every buffer x, the empty one included, and every rate r.
C24_ResampleIdentity ==
    (resample_pc = "resample" /\ from_rate = to_rate) =>
        /\ ~resampled.raised
        /\ Len(resampled.samples) = Len(samples_in)
        /\ resampled.samples = samples_in

\* A buffer of two samples was resampled from 44100 Hz to 44100 Hz.
C24_Witness ==
    /\ resample_pc = "resample"
    /\ from_rate = 44100
    /\ to_rate = 44100
    /\ samples_in = <<<<1, 1>>, <<0 - 1, 1>>>>
    /\ resampled.samples = samples_in

\* C25: resample of the empty buffer returns an empty buffer and raises
\* nothing, for any two rates, equal or different.
C25_EmptyBufferResamples ==
    (resample_pc = "resample" /\ samples_in = <<>>) =>
        ~resampled.raised /\ resampled.samples = <<>>

\* C26: whenever the worker is executing a transcription engine call, the
\* value most recently passed to the tray's set_transcribing is true, for
\* every interleaving of the toggle handler with the worker's steps.
C26_TrayShowsTranscribing == wpc = "engine" => tray_transcribing

\* Whether a name contains the hardware-addressing substring "(hw:".
is_hw_device(name) == contains(name, hw_mark)

\* C27: in the list list_audio_devices returns, every device whose name
\* contains "(hw:" comes before every device whose name does not, and within
\* each of the two groups the names ascend in lexicographic order.
C27_HardwareFirstThenByName ==
    listed =>
        \A i, j \in 1..Len(inputs) :
            i < j =>
                /\ is_hw_device(inputs[j].name) => is_hw_device(inputs[i].name)
                /\ is_hw_device(inputs[i].name) = is_hw_device(inputs[j].name)
                       => ~str_less(inputs[j].name, inputs[i].name)

\* "Blue Yeti" is enumerated before "HDA Intel (hw:0,0)" and is listed
\* behind it.
C27_Witness ==
    /\ listed
    /\ query_devices = <<Dev(BlueYeti, 2), Dev(HdaIntel, 8)>>
    /\ Len(inputs) = 2
    /\ inputs[1].name = HdaIntel
    /\ inputs[2].name = BlueYeti

\* The WhisperModel(...) calls the call of load_model numbered c has made.
Constructions(c) == {i \in 1..Len(constructed) : constructed[i].call = c}

\* No call of load_model is under way.
BetweenCalls == load_pc \in {"ready", "exited"}

\* C28: the model is loaded at most once: a call of load_model that finds a
\* model held constructs nothing, so nothing is constructed after a
\* successful load, whatever the number of transcribe calls; a failed load
\* on "cuda" is followed by one load on "cpu" with "int8" in the same call,
\* and the call raises the failure of a load exactly when that load was not
\* on "cuda" (the fallback included).
C28_LoadedOnceWithFallback ==
    /\ \A i \in 1..Len(constructed) :
          /\ constructed[i].outcome = "ok" => i = Len(constructed)
          /\ (constructed[i].outcome = "raises" /\ constructed[i].device = "cuda") =>
                /\ load_raised # "load"
                /\ (load_pc = "fallback" /\ i = Len(constructed))
                      \/ /\ i < Len(constructed)
                         /\ constructed[i + 1].call = constructed[i].call
                         /\ constructed[i + 1].device = "cpu"
                         /\ constructed[i + 1].compute_type = "int8"
          /\ (constructed[i].outcome = "raises" /\ constructed[i].device # "cuda") =>
                /\ i = Len(constructed)
                /\ load_raised \in {"load", "fallback"}
                /\ load_pc = "exited"
    /\ \A c \in 1..MaxCalls : Cardinality(Constructions(c)) <= 2
    /\ (BetweenCalls /\ load_raised \in {"load", "fallback"}) =>
          /\ constructed # <<>>
          /\ constructed[Len(constructed)].outcome = "raises"
          /\ constructed[Len(constructed)].device # "cuda"
    /\ (load_pc = "ready" /\ load_calls > 1) =>
          /\ model_held
          /\ Constructions(load_calls) = {}

\* The load on "cuda" failed, the fallback succeeded, and two transcribe
\* calls later the two constructions of the first call are the only ones.
C28_Witness ==
    /\ load_pc = "ready"
    /\ load_calls = MaxCalls
    /\ Len(constructed) = 2
    /\ constructed[1] = [call |-> 1, device |-> "cuda",
                         compute_type |-> "float16", outcome |-> "raises"]
    /\ constructed[2] = [call |-> 1, device |-> "cpu", compute_type |-> "int8",
                         outcome |-> "ok"]
    /\ engine_model = [device |-> "cpu", compute_type |-> "int8"]
    /\ load_raised = "none"

\* The outcomes notified for a buffer.
Outcomes(b) == {k \in {"done", "no_speech", "error"} : <<b, k>> \in notifications}

\* The worker has finished with a buffer it passed to the engine: its check
\* was made and its delivery, if any, is over.
Finished(b) ==
    /\ engine_calls[b] > 0
    /\ at_check[b] # NotChecked
    /\ waudio.id = b => wpc = "get"

\* C29: for every buffer the worker passed to the engine exactly one outcome
\* follows: when a newer buffer is queued as the worker checks the queue on
\* return of the engine call, nothing is delivered and no outcome is
\* notified; otherwise exactly one of done (text, also copied to the
\* clipboard), no-speech (empty text) and error (an exception) is notified;
\* and text is copied to the clipboard only in the done case.
C29_ExactlyOneOutcome ==
    \A b \in Buffers :
        /\ b \in clipboard => <<b, "done">> \in notifications
        /\ Finished(b) =>
              IF at_check[b].waiting > 0
              THEN Outcomes(b) = {} /\ b \notin clipboard
              ELSE /\ Cardinality(Outcomes(b)) = 1
                   /\ <<b, "error">> \in notifications <=> raised[b] # "none"
                   /\ <<b, "done">> \in notifications <=> b \in clipboard
                   /\ waudio.id = b =>
                         (<<b, "done">> \in notifications <=>
                             (text # "" /\ raised[b] = "none"))

\* The place of a buffer in the order of the puts.
place(b) == CHOOSE i \in 1..Len(pushes) : pushes[i] = b

\* C30: the buffers whose text was delivered are, in the order of delivery,
\* a subsequence of the buffers pushed in the order of the puts, and every
\* one of them was transcribed and was the buffer put last at the moment
\* the worker made its check of the queue after the transcription.
C30_DeliveriesInPushOrder ==
    /\ \A i \in 1..Len(deliveries) :
          /\ \E k \in 1..Len(pushes) : pushes[k] = deliveries[i]
          /\ engine_calls[deliveries[i]] = 1
          /\ at_check[deliveries[i]].newest = deliveries[i]
          /\ at_check[deliveries[i]].waiting = 0
    /\ \A i, j \in 1..Len(deliveries) :
          i < j => place(deliveries[i]) < place(deliveries[j])

\* Three buffers were put; the first and the third were delivered, the
\* second was overtaken by the third during its transcription.
C30_Witness ==
    /\ pushes = <<1, 2, 3>>
    /\ deliveries = <<1, 3>>
    /\ engine_calls[2] = 1
    /\ at_check[2] = [newest |-> 3, waiting |-> 1]
    /\ wpc = "get"

\* The worker is blocked in the get of line 220, the queue being empty.
WorkerBlocked == wpc = "get" /\ audio_queue = <<>>

\* C31: no recording is lost at the end.  When the pushes stop, the worker
\* is scheduled and every engine call returns, the buffer pushed last is
\* passed to the engine and its outcome (done, no-speech or error) is
\* reported, and from then on the queue is empty and the worker is blocked
\* waiting for the next buffer.
C31_LastBufferProcessed ==
    \A b \in Buffers :
        <>[](pushed # {} /\ Newest(pushed) = b) =>
            <>[](engine_calls[b] = 1 /\ Reported(b) /\ WorkerBlocked)

\* The first buffer was delivered; the second, put after the worker's
\* check for the first, was transcribed in its turn, its outcome is
\* reported and the worker waits.
C31_Witness ==
    /\ pushes = <<1, 2>>
    /\ deliveries = <<1>>
    /\ at_check[1] = [newest |-> 1, waiting |-> 0]
    /\ engine_calls[2] = 1
    /\ Reported(2)
    /\ WorkerBlocked
    /\ hpc = "idle"

\* stop() has been called and has not returned.
InStop ==
    hpc \in {"stop", "stop_locked", "stop_stream", "stop_collect",
             "stop_collecting"}

\* C32: stop() and the capture callback cannot deadlock.  stop() does not
\* hold the session lock while it stops and closes the stream; a callback
\* that waits for the lock or holds it completes; and a stop() that was
\* called returns.
C32_StopAndCallbackComplete ==
    /\ [](hpc = "stop_stream" => lock # "main")
    /\ (cpc \in {"acquire", "locked"}) ~> (cpc = "idle")
    /\ InStop ~> (hpc = "stopped")

\* stop() is about to stop the stream while a callback of that stream
\* holds the lock.
C32_Witness ==
    /\ hpc = "stop_stream"
    /\ stream_active
    /\ cpc = "locked"
    /\ lock = "callback"
    /\ ~recording

\* The innermost handler waits for the session lock.
TopWaits ==
    \/ top_at("on_hotkey")
    \/ top_at("start_acquire")
    \/ top_at("stop_acquire")
    \/ top_at("stop_collect")

\* The capture streams that are open: the one _stream refers to and those
\* it no longer refers to.
open_streams == (IF stream # 0 THEN 1 ELSE 0) + leaked

\* C33: at most one capture stream is open at any time, no stream reference
\* is overwritten by a new stream without having been closed, and no
\* handler blocks for ever on the session lock (it never waits for a lock
\* that a handler below it on the main thread holds), for every
\* interleaving of toggle signals, those that arrive while the handler of
\* the previous one is executing included.
C33_OneStreamNoBlockedHandler ==
    /\ open_streams <= 1
    /\ leaked = 0
    /\ ~(TopWaits /\ lock = "main")

\* The outcome of the buffer put last has been notified, the main thread is
\* back in the main loop and every idle callback given to it has run.
AfterLastOutcome ==
    /\ pushed # {}
    /\ Reported(Newest(pushed))
    /\ hpc = "idle"
    /\ idle_queue = <<>>

\* C34: once the outcome of the last job has been notified and the idle
\* callbacks scheduled so far have run, no processing notification is open
\* and no update timer is scheduled, for every interleaving of the worker's
\* notify calls with the deferred creation of the processing notification;
\* and at most one processing notification is open at any time.
C34_ProcessingNotificationStopped ==
    /\ Cardinality(open_notices) <= 1
    /\ AfterLastOutcome => open_notices = {} /\ timers = {}

====
